---- MODULE Spec2Model ----
(***************************************************************************)
(* A model of icx-proxy's request pipeline (src/src/main.rs): one request  *)
(* on one accepted connection, from handle_request's path classification   *)
(* through canister resolution, the query / update calls, the certificate  *)
(* check and the streaming task that forward_request spawns.               *)
(*                                                                         *)
(* Text is modelled as sequences of one-character strings where the code   *)
(* looks at prefixes (request paths), and as small records where the code  *)
(* hands it to a library parser (Uri::from_str, Principal::from_text,      *)
(* serde_cbor, flate2).                                                     *)
(***************************************************************************)
EXTENDS Integers, Sequences, FiniteSets, TLC

VARIABLES
    cfg,            \* Opts as handle_request sees them, with the connection's replica
    req,            \* the inbound Request<Body>
    pc,             \* where handle_request / forward_request is suspended
    handlers,       \* the branches of handle_request entered, in order
    canister_id,    \* what resolve_canister_id returned, once forward_request has called it
    entire_body,    \* forward_request's entire_body, once read
    calls,          \* the query / update calls issued so far, with their arguments
    root_key_fetches, \* the agent.fetch_root_key() calls issued so far
    http_response,  \* forward_request's http_response (the query's, then the update's)
    response,       \* what the connection answers: the Response, or nothing after a panic
    task,           \* the spawned streaming task: its position, count and callback_token
    callback_calls, \* http_request_stream_callback calls issued so far
    sent,           \* the chunks send_data has handed to the body channel, in order
    receiver,       \* the receiving half of the body channel: "none", "open" or "closed"
    root_key,       \* the agent's root key: "none", "fetching", "fetched" or "failed"
    outcome,        \* the Result the handler returned to handle_request's match
    callbacks,      \* the streaming callbacks that have returned: token and result
    proxied,        \* the request create_proxied_request built for the upstream
    consumed,       \* how many items the connection has taken out of the body channel
    replicas,       \* main's replicas, from opts.replica
    counter,        \* main's AtomicUsize counter
    connections,    \* the connections accepted so far: the count and replica_url each captured
    served,         \* the requests service_fn has handed to handle_request, in order
    decode_input,   \* a response's headers and body, for the body hasher on its own
    decode_output,  \* the encoding extracted from them and what decode_body returned
    ic_certificate, \* the fields of an IC-Certificate value, for the extractor on its own
    split_pos,      \* how many of them extract_headers_data's inner loop has been through
    extracted       \* extract_headers_data's headers_data after that many

\* The state of one request.
request_vars == <<cfg, req, pc, handlers, canister_id, entire_body, calls, root_key_fetches,
                  http_response, response, task, callback_calls, sent, receiver, root_key,
                  outcome, callbacks, proxied, consumed>>

\* The state of main.
connection_vars == <<replicas, counter, connections, served>>

\* The body hasher's input and output.
decode_vars == <<decode_input, decode_output>>

\* The header extractor's input, position and accumulator.
extract_vars == <<ic_certificate, split_pos, extracted>>

vars == <<request_vars, connection_vars, decode_vars, extract_vars>>

----------------------------------------------------------------------------
(* Option<T>, and the program's constants. *)

None == [kind |-> "None"]

Some(x) == [kind |-> "Some", v |-> x]

\* A local that the code has not bound yet.
Unset == [kind |-> "Unset"]

MAX_HTTP_REQUEST_STREAM_CALLBACK_CALL_COUNT == 1000

MAX_BYTES_SIZE_TO_DECOMPRESS == 10000000

\* http::StatusCode::from_u16 accepts exactly 100..=999.
StatusCodeMin == 100

StatusCodeMax == 999

----------------------------------------------------------------------------
(* Text. *)

\* str::starts_with
StartsWith(s, p) == Len(s) >= Len(p) /\ SubSeq(s, 1, Len(p)) = p

ApiPrefix == <<"/", "a", "p", "i", "/">>

UnderscorePrefix == <<"/", "_", "/">>

RawPrefix == <<"/", "_", "/", "r", "a", "w">>

IndexHtml == <<"/", "i", "n", "d", "e", "x", ".", "h", "t", "m", "l">>

PathA == <<"/", "a">>

PathMissing == <<"/", "n", "o">>

\* Request paths on both sides of every prefix test of handle_request.
Paths ==
    { <<"/">>, PathA, PathMissing, IndexHtml,
      <<"/", "a", "p", "i">>, ApiPrefix, ApiPrefix \o <<"v", "2">>,
      <<"/", "_">>, UnderscorePrefix, UnderscorePrefix \o <<"x">>,
      <<"/", "_", "/", "r", "a">>, RawPrefix, RawPrefix \o <<"/", "a">>,
      RawPrefix \o <<"x">> }

----------------------------------------------------------------------------
(* Principals and the texts Principal::from_text accepts. *)

StaticCanister == "rrkah-cai"

CertifiedCanister == "ryjl3-cai"

StreamingCanister == "renrk-cai"

AliasedCanister == "r7inp-cai"

\* The canisters named by a canisterId parameter of the URI and of the Referer.
QueryPrincipal == "qaa6y-cai"

RefererPrincipal == "qjdve-cai"

Principals ==
    {StaticCanister, CertifiedCanister, StreamingCanister, AliasedCanister,
     QueryPrincipal, RefererPrincipal}

\* Principal::from_text(text).ok()
PrincipalFromText(text) == IF text \in Principals THEN Some(text) ELSE None

----------------------------------------------------------------------------
(* Header values and URIs.  A header value either is not visible ASCII     *)
(* (to_str fails) or is a text; a text either is no URI (Uri::from_str     *)
(* fails) or is a URI with an optional host, split on '.', and an optional *)
(* query, split into its name=value pairs.                                  *)

NotStr == [kind |-> "NotStr"]

Garbage == [kind |-> "Str", form |-> "garbage"]

UriText(host, query) == [kind |-> "Str", form |-> "uri", host |-> host, query |-> query]

Param(name, value) == [name |-> name, value |-> value]

HeaderField(name, value) == [name |-> name, value |-> value]

\* HeaderMap::get: the first value stored under the name.
RECURSIVE HeaderGet(_, _)
HeaderGet(headers, name) ==
    IF headers = <<>> THEN None
    ELSE IF Head(headers).name = name THEN Some(Head(headers).value)
    ELSE HeaderGet(Tail(headers), name)

\* str::to_ascii_lowercase, on the header names of the model.
to_ascii_lowercase(name) ==
    CASE name = "Connection" -> "connection"
      [] name = "Keep-Alive" -> "keep-alive"
      [] name = "Proxy-Authenticate" -> "proxy-authenticate"
      [] name = "Proxy-Authorization" -> "proxy-authorization"
      [] name = "TE" -> "te"
      [] name = "Trailers" -> "trailers"
      [] name = "Transfer-Encoding" -> "transfer-encoding"
      [] name = "UPGRADE" -> "upgrade"
      [] name = "X-Forwarded-For" -> "x-forwarded-for"
      [] name = "X-Custom" -> "x-custom"
      [] OTHER -> name

\* The HeaderMap hyper parses from the header lines of a request.
HeaderMapOf(lines) ==
    [i \in 1..Len(lines) |-> HeaderField(to_ascii_lowercase(lines[i].name), lines[i].value)]

----------------------------------------------------------------------------
(* DnsCanisterConfig: aliases map whole host names to principals, suffixes *)
(* make the label left of the suffix the principal.                        *)

EndsWith(s, suffix) ==
    Len(s) >= Len(suffix) /\ SubSeq(s, Len(s) - Len(suffix) + 1, Len(s)) = suffix

DnsDefault == [aliases |-> {}, suffixes |-> {<<"localhost">>}]

DnsAliased ==
    [aliases |-> {[host |-> <<"app", "example">>, id |-> AliasedCanister]},
     suffixes |-> {<<"ic0", "app">>}]

resolve_canister_id_from_split_hostname(dns, split_hostname) ==
    IF \E a \in dns.aliases : a.host = split_hostname
    THEN Some((CHOOSE a \in dns.aliases : a.host = split_hostname).id)
    ELSE IF \E s \in dns.suffixes :
                /\ EndsWith(split_hostname, s)
                /\ Len(split_hostname) > Len(s)
                /\ PrincipalFromText(split_hostname[Len(split_hostname) - Len(s)]) # None
    THEN LET s == CHOOSE s \in dns.suffixes :
                      /\ EndsWith(split_hostname, s)
                      /\ Len(split_hostname) > Len(s)
                      /\ PrincipalFromText(split_hostname[Len(split_hostname) - Len(s)]) # None
         IN  PrincipalFromText(split_hostname[Len(split_hostname) - Len(s)])
    ELSE None

----------------------------------------------------------------------------
(* Canister resolution, main.rs 114-175. *)

resolve_canister_id_from_hostname(hostname, dns) ==
    IF hostname.form # "uri" THEN None                      \* Uri::from_str(..).ok()?
    ELSE IF hostname.host = None THEN None                  \* url.host()?
    ELSE LET split_hostname == hostname.host.v
             configured == resolve_canister_id_from_split_hostname(dns, split_hostname)
             n == Len(split_hostname)
         IN  IF configured # None THEN configured
             ELSE IF n >= 2 /\ split_hostname[n] = "localhost"
                  THEN PrincipalFromText(split_hostname[n - 1])
             ELSE IF n >= 1 THEN PrincipalFromText(split_hostname[1])
             ELSE None

\* form_urlencoded::parse(..).find(|(name, _)| name == "canisterId")
RECURSIVE FindCanisterIdParam(_)
FindCanisterIdParam(params) ==
    IF params = <<>> THEN None
    ELSE IF Head(params).name = "canisterId" THEN Some(Head(params).value)
    ELSE FindCanisterIdParam(Tail(params))

resolve_canister_id_from_uri(query) ==
    IF query = None THEN None                               \* url.query()?
    ELSE LET found == FindCanisterIdParam(query.v)
         IN  IF found = None THEN None ELSE PrincipalFromText(found.v)

\* The three sources of resolve_canister_id, each as the Option it yields.
FromHost(request, dns) ==
    LET host_header == HeaderGet(request.headers, "host")
    IN  IF host_header = None THEN None
        ELSE IF host_header.v.kind # "Str" THEN None
        ELSE resolve_canister_id_from_hostname(host_header.v, dns)

FromUri(request) == resolve_canister_id_from_uri(request.query)

FromReferer(request) ==
    LET referer_header == HeaderGet(request.headers, "referer")
    IN  IF referer_header = None THEN None
        ELSE IF referer_header.v.kind # "Str" THEN None
        ELSE IF referer_header.v.form # "uri" THEN None
        ELSE resolve_canister_id_from_uri(referer_header.v.query)

\* resolve_canister_id looking into the URI before the Host header.
resolve_canister_id_UriFirst(request, dns) ==
    IF FromUri(request) # None THEN FromUri(request)
    ELSE IF FromHost(request, dns) # None THEN FromHost(request, dns)
    ELSE IF FromReferer(request) # None THEN FromReferer(request)
    ELSE None

\* main.rs 144-175
resolve_canister_id(request, dns) ==
    IF FromHost(request, dns) # None THEN FromHost(request, dns)
    ELSE IF FromUri(request) # None THEN FromUri(request)
    ELSE IF FromReferer(request) # None THEN FromReferer(request)
    ELSE None

----------------------------------------------------------------------------
(* Bytes.  A byte string is the text it carries together with the container *)
(* it is framed in: unframed bytes, a gzip stream or a raw deflate stream   *)
(* of that text.  Sha256 is injective on byte strings.                      *)

Ok(x) == [kind |-> "Ok", ok |-> x]

Err(e) == [kind |-> "Err", err |-> e]

Bytes(payload) == [frame |-> "none", payload |-> payload]

Gzip(payload) == [frame |-> "gzip", payload |-> payload]

Deflate(payload) == [frame |-> "deflate", payload |-> payload]

Sha256(bytes) == [sha256 |-> bytes]

\* A byte string too long to write out: `len` times the byte `fill`, framed
\* like the others.  The texts above are all shorter than the limit below.
Long(frame, fill, len) == [frame |-> frame, fill |-> fill, len |-> len]

IsLong(bytes) == "len" \in DOMAIN bytes

\* Take without a limit.
Take_Everything(bytes, limit) ==
    IF IsLong(bytes) THEN Long("none", bytes.fill, bytes.len) ELSE Bytes(bytes.payload)

\* Read::take(limit) followed by read_to_end: the first `limit` bytes at most.
Take(bytes, limit) ==
    IF IsLong(bytes)
    THEN Long("none", bytes.fill, IF bytes.len < limit THEN bytes.len ELSE limit)
    ELSE Bytes(bytes.payload)

\* GzDecoder::new(body).take(MAX_BYTES_SIZE_TO_DECOMPRESS).read_to_end(decoded)
GzDecode(body) ==
    IF body.frame = "gzip" THEN Ok(Take(body, MAX_BYTES_SIZE_TO_DECOMPRESS))
    ELSE Err("invalid gzip header")

\* DeflateDecoder::new(body).take(MAX_BYTES_SIZE_TO_DECOMPRESS).read_to_end(decoded)
DeflateDecode(body) ==
    IF body.frame = "deflate" THEN Ok(Take(body, MAX_BYTES_SIZE_TO_DECOMPRESS))
    ELSE Err("corrupt deflate stream")

Panic == [kind |-> "Panic"]

\* main.rs 525-552.  The two unwrap()s panic on a decoder error.
decode_body(body, encoding) ==
    IF encoding = None THEN Ok(Sha256(body))
    ELSE IF encoding.v = "gzip"
         THEN IF GzDecode(body).kind = "Ok" THEN Ok(Sha256(GzDecode(body).ok)) ELSE Panic
    ELSE IF encoding.v = "deflate"
         THEN IF DeflateDecode(body).kind = "Ok" THEN Ok(Sha256(DeflateDecode(body).ok))
              ELSE Panic
    ELSE Ok(Sha256(body))

----------------------------------------------------------------------------
(* Certificates and hash trees, as the bytes of the IC-Certificate header   *)
(* decode to.  A certificate either is no CBOR, or carries whether          *)
(* agent.verify accepts it and the certified_data of some canisters; a tree *)
(* either is no CBOR or carries its http_assets leaves and the rest of its  *)
(* content, which its root digest commits to.                               *)

Certificate(verifies, certified) ==
    [cbor |-> TRUE, verifies |-> verifies, certified |-> certified]

HashTree(assets, rest) == [cbor |-> TRUE, assets |-> assets, rest |-> rest]

NotCbor == [cbor |-> FALSE]

Asset(path, leaf) == [path |-> path, leaf |-> leaf]

CertifiedData(canister, data) == [canister |-> canister, data |-> data]

\* HashTree::digest
TreeDigest(tree) == [root_of |-> tree.assets, rest |-> tree.rest]

\* lookup_value(&cert, ["canister", canister_id, "certified_data"])
lookup_value(cert, canister) ==
    IF \E c \in cert.certified : c.canister = canister
    THEN Ok((CHOOSE c \in cert.certified : c.canister = canister).data)
    ELSE Err("LookupPathAbsent")

\* HashTree::lookup_path(["http_assets", path]): Found(leaf) or not found
lookup_path(tree, path) ==
    IF \E a \in tree.assets : a.path = path
    THEN Some((CHOOSE a \in tree.assets : a.path = path).leaf)
    ELSE None

\* tree_sha without the retry at /index.html.
tree_sha_NoFallback(tree, path) == lookup_path(tree, path)

\* The leaf validate_body compares the body digest with, main.rs 606-620.
tree_sha(tree, path) ==
    IF lookup_path(tree, path) # None THEN lookup_path(tree, path)
    ELSE lookup_path(tree, IndexHtml)

\* main.rs 559-623: Err(e), Ok(FALSE) or Ok(TRUE).
validate_body(certificates, canister, path, body_sha) ==
    IF ~certificates.certificate.cbor THEN Err("InvalidCborData")
    ELSE IF ~certificates.tree.cbor THEN Err("InvalidCborData")
    ELSE IF ~certificates.certificate.verifies THEN Ok(FALSE)
    ELSE IF lookup_value(certificates.certificate, canister).kind # "Ok" THEN Ok(FALSE)
    ELSE IF lookup_value(certificates.certificate, canister).ok
                # TreeDigest(certificates.tree) THEN Ok(FALSE)
    ELSE IF tree_sha(certificates.tree, path) = None THEN Ok(FALSE)
    ELSE Ok(body_sha = tree_sha(certificates.tree, path).v)

----------------------------------------------------------------------------
(* The header extractor, main.rs 196-257.  An IC-Certificate value is the   *)
(* sequence of its comma-separated fields; a field either has the shape     *)
(* name=:base64: or not, and its payload either decodes from base64 or not. *)

Field(name, decoded) == [shape |-> TRUE, name |-> name, decoded |-> decoded]

Shapeless == [shape |-> FALSE]

B64Err == [kind |-> "Err"]

CertificateValue(fields) == [kind |-> "Str", form |-> "fields", fields |-> fields]

Plain(text) == [kind |-> "Str", form |-> "plain", text |-> text]

\* str::eq_ignore_ascii_case against the two names the extractor looks for.
IsIcCertificate(name) == name \in {"IC-Certificate", "ic-certificate", "IC-CERTIFICATE"}

IsContentEncoding(name) == name \in {"Content-Encoding", "content-encoding"}

\* The duplicate policy with the last value kept.
Merge_LastWins(old, bytes) == Some(bytes)

\* The duplicate policy, main.rs 210-230 and 232-246.
Merge(old, bytes) ==
    IF old = None THEN Some(bytes)
    ELSE IF old.v.kind = "Ok" THEN old
    ELSE Some(bytes)

RECURSIVE ExtractFields(_, _)
ExtractFields(data, fields) ==
    IF fields = <<>> THEN data
    ELSE LET f == Head(fields)
             next ==
                 IF ~f.shape THEN data
                 ELSE IF f.name = "certificate"
                      THEN [data EXCEPT !.certificate = Merge(data.certificate, f.decoded)]
                 ELSE IF f.name = "tree"
                      THEN [data EXCEPT !.tree = Merge(data.tree, f.decoded)]
                 ELSE data
         IN  ExtractFields(next, Tail(fields))

RECURSIVE ExtractHeaders(_, _)
ExtractHeaders(data, headers) ==
    IF headers = <<>> THEN data
    ELSE LET h == Head(headers)
             next ==
                 IF IsIcCertificate(h.name)
                 THEN IF h.value.form = "fields" THEN ExtractFields(data, h.value.fields)
                      ELSE data
                 ELSE IF IsContentEncoding(h.name) /\ h.value.form = "plain"
                      THEN [data EXCEPT !.encoding = Some(h.value.text)]
                 ELSE data
         IN  ExtractHeaders(next, Tail(headers))

extract_headers_data(headers) ==
    ExtractHeaders([certificate |-> None, tree |-> None, encoding |-> None], headers)

\* The extractor has nothing to go through.
NoExtraction ==
    /\ ic_certificate = <<>>
    /\ split_pos = 0
    /\ extracted = [certificate |-> None, tree |-> None, encoding |-> None]

----------------------------------------------------------------------------
(* The verifier, main.rs 486-523.  The skip_body_verification feature is    *)
(* off, as in every production build.                                       *)

skip_body_verification == FALSE

Rejected(reason) == [kind |-> "Err", reason |-> reason]

BodyDoesNotPass == <<"Body does not pass verification">>

CertificateValidationFailed(e) == <<"Certificate validation failed: ", e>>

\* validate accepting a certificate that comes without a tree.
validate_TreeOptional(headers_data, canister, path, response_body) ==
    LET body_sha == decode_body(response_body, headers_data.encoding)
        present(x) == x # None
        decoded(x) == x # None /\ x.v.kind = "Ok"
        body_valid ==
            IF decoded(headers_data.certificate) /\ decoded(headers_data.tree)
            THEN LET r == validate_body([certificate |-> headers_data.certificate.v.ok,
                                         tree |-> headers_data.tree.v.ok],
                                        canister, path, body_sha.ok)
                 IN  IF r.kind = "Ok"
                     THEN IF r.ok THEN Ok(TRUE) ELSE Rejected(BodyDoesNotPass)
                     ELSE Rejected(CertificateValidationFailed(r.err))
            ELSE IF present(headers_data.tree) THEN Rejected(BodyDoesNotPass)
            ELSE Ok(TRUE)
    IN  IF body_sha.kind = "Panic" THEN Panic
        ELSE IF body_valid.kind = "Err" /\ ~skip_body_verification THEN body_valid
        ELSE Ok(TRUE)

\* Panic (from decode_body), Ok(TRUE) or Err(reason).
validate(headers_data, canister, path, response_body) ==
    LET body_sha == decode_body(response_body, headers_data.encoding)
        present(x) == x # None
        decoded(x) == x # None /\ x.v.kind = "Ok"
        body_valid ==
            IF decoded(headers_data.certificate) /\ decoded(headers_data.tree)
            THEN LET r == validate_body([certificate |-> headers_data.certificate.v.ok,
                                         tree |-> headers_data.tree.v.ok],
                                        canister, path, body_sha.ok)
                 IN  IF r.kind = "Ok"
                     THEN IF r.ok THEN Ok(TRUE) ELSE Rejected(BodyDoesNotPass)
                     ELSE Rejected(CertificateValidationFailed(r.err))
            ELSE IF present(headers_data.certificate) \/ present(headers_data.tree)
                 THEN Rejected(BodyDoesNotPass)
            ELSE Ok(TRUE)
    IN  IF body_sha.kind = "Panic" THEN Panic
        ELSE IF body_valid.kind = "Err" /\ ~skip_body_verification THEN body_valid
        ELSE Ok(TRUE)

----------------------------------------------------------------------------
(* The bounds of the model. *)

\* The longest query string, in parameters.
MaxQueryParams == 2

\* The most comma-separated fields in one IC-Certificate header value.
MaxCertFields == 2

\* The most chunks that follow the first one in a stream that ends by itself.
MaxShortChunks == 2

\* The most header lines a proxied request adds to its Host header.
MaxProxyHeaders == 2

\* Sequences over S of length at most n.
SeqsUpTo(S, n) == UNION {[1..k -> S] : k \in 0..n}

----------------------------------------------------------------------------
(* What canisters answer.  HttpResponse, StreamingStrategy and the results  *)
(* of the agent's calls.                                                     *)

HttpResponse(status_code, headers, body, upgrade, streaming_strategy) ==
    [status_code |-> status_code, headers |-> headers, body |-> body,
     upgrade |-> upgrade, streaming_strategy |-> streaming_strategy]

Callback(principal, method, token) ==
    [principal |-> principal, method |-> method, token |-> token]

ReplicaError(reject_code, reject_message) ==
    [kind |-> "ReplicaError", reject_code |-> reject_code, reject_message |-> reject_message]

OtherError(e) == [kind |-> "OtherError", error |-> e]

Pending == [kind |-> "Pending"]

Hello == Bytes(<<"hello">>)

Tampered == Bytes(<<"tampered">>)

LeafHello == Some(Sha256(Hello))

LeafOther == Some(Sha256(Tampered))

AssetsOf(a, index) ==
    (IF a = None THEN {} ELSE {Asset(PathA, a.v)})
        \cup (IF index = None THEN {} ELSE {Asset(IndexHtml, index.v)})

\* Trees by their http_assets leaves for /a and /index.html.
TreeBoth == HashTree(AssetsOf(LeafHello, LeafOther), 0)

Trees ==
    {TreeBoth, HashTree(AssetsOf(None, None), 0), HashTree(AssetsOf(None, LeafHello), 0),
     HashTree(AssetsOf(LeafOther, LeafHello), 0), HashTree(AssetsOf(None, LeafOther), 0)}

Certificates ==
    {Certificate(TRUE, {CertifiedData(CertifiedCanister, TreeDigest(t))}) : t \in Trees}
        \cup {Certificate(FALSE, {CertifiedData(CertifiedCanister, TreeDigest(TreeBoth))}),
              Certificate(TRUE, {CertifiedData(StaticCanister, TreeDigest(TreeBoth))}),
              NotCbor}

CertFields ==
    {Field("certificate", Ok(c)) : c \in Certificates}
        \cup {Field("tree", Ok(t)) : t \in Trees \cup {NotCbor}}
        \cup {Field("certificate", B64Err), Field("tree", B64Err),
              Field("Certificate", Ok(NotCbor)), Shapeless}

GoodPair ==
    <<Field("certificate",
            Ok(Certificate(TRUE, {CertifiedData(CertifiedCanister, TreeDigest(TreeBoth))}))),
      Field("tree", Ok(TreeBoth))>>

OnlyCertificate == <<GoodPair[1]>>

OnlyTree == <<GoodPair[2]>>

\* Header lists a canister sends: none, or one IC-Certificate header.
CertificateHeaders(values) ==
    {<<>>} \cup {<<HeaderField("IC-Certificate", CertificateValue(fs))>> : fs \in values}

EncodingHeaders ==
    {<<>>} \cup {<<HeaderField(n, Plain(e))>> :
                    n \in {"Content-Encoding", "content-encoding"},
                    e \in {"gzip", "deflate", "GZIP", "br"}}

OtherHeaders ==
    {<<>>, <<HeaderField("X-Custom", Plain("1"))>>, <<HeaderField("bad name", Plain("1"))>>}

\* Responses that exercise the verifier, the body hasher, and status, upgrade and headers.
VerifierResponses ==
    {HttpResponse(200, h, b, None, None) :
        h \in CertificateHeaders(SeqsUpTo(CertFields, MaxCertFields)), b \in {Hello, Tampered}}

HasherResponses ==
    {HttpResponse(200, h \o e, b, None, None) :
        h \in CertificateHeaders({GoodPair, OnlyCertificate}), e \in EncodingHeaders,
        b \in {Hello, Gzip(<<"hello">>), Deflate(<<"hello">>), Gzip(<<"tampered">>)}}

StatusResponses ==
    {HttpResponse(s, h \o o, Hello, None, None) :
        s \in {200, 404, 99, 1000}, h \in CertificateHeaders({GoodPair, OnlyTree}),
        o \in OtherHeaders}

UpgradeResponses ==
    {HttpResponse(200, h, Hello, u, None) :
        h \in CertificateHeaders({GoodPair}), u \in {Some(TRUE), Some(FALSE)}}

StreamingStrategy == Some(Callback(StreamingCanister, "http_request_stream_callback", 0))

Part1 == Bytes(<<"part1">>)

\* The first token of the assets that end after MaxShortChunks further chunks.
ShortStreamToken == 2000

ShortStreamingStrategy ==
    Some(Callback(StreamingCanister, "http_request_stream_callback", ShortStreamToken))

\* The asset whose callbacks may go on up to the ceiling of the streaming task.
LongStreamResponse == HttpResponse(200, <<>>, Part1, None, StreamingStrategy)

StreamingResponses ==
    {LongStreamResponse}
        \cup {HttpResponse(200, h, Part1, None, ShortStreamingStrategy) :
                 h \in CertificateHeaders({OnlyCertificate, GoodPair}) \ {<<>>}}
        \cup {HttpResponse(200, <<>>, Part1, Some(TRUE), ShortStreamingStrategy),
              HttpResponse(1000, <<>>, Part1, None, ShortStreamingStrategy),
              HttpResponse(200, <<HeaderField("bad name", Plain("1"))>>, Part1, None,
                           ShortStreamingStrategy),
              HttpResponse(200, <<HeaderField("Content-Encoding", Plain("gzip"))>>, Part1,
                           None, ShortStreamingStrategy)}

SimpleResponses ==
    {HttpResponse(200, <<>>, Hello, u, None) : u \in {None, Some(TRUE)}}

Errors ==
    {ReplicaError(3, "out of cycles"), ReplicaError(5, "trapped"),
     OtherError("TransportError"), OtherError("TimeoutWaitingForResponse")}

\* What a call to http_request or http_request_update on the canister may return.
CanisterResults(canister) ==
    Errors \cup
    {Ok(r) : r \in IF canister = CertifiedCanister
                   THEN VerifierResponses \cup HasherResponses \cup StatusResponses
                            \cup UpgradeResponses
                   ELSE IF canister = StreamingCanister
                        THEN StreamingResponses \cup SimpleResponses
                   ELSE SimpleResponses}

\* What http_request_update may return: the long asset is served to queries only.
UpdateResults(canister) == CanisterResults(canister) \ {Ok(LongStreamResponse)}

\* What http_request_stream_callback may return for a token: the token's
\* chunk with a next token or with none, or an error.
Chunk(token) == Bytes(<<"part", ToString(token + 2)>>)

CallbackResults(token) ==
    {Ok([body |-> Chunk(token), token |-> None]),
     OtherError("TransportError"), ReplicaError(5, "trapped")}
        \cup (IF token < ShortStreamToken \/ token + 1 < ShortStreamToken + MaxShortChunks
              THEN {Ok([body |-> Chunk(token), token |-> Some(token + 1)])}
              ELSE {})

----------------------------------------------------------------------------
(* Requests and configurations.  Init draws one of each from four families: *)
(* every path under every configuration, every combination of the three    *)
(* sources of a canister id, and the requests sent to the canister that     *)
(* certifies and to the one that streams.                                   *)

Request(method, path, query, headers, body) ==
    [method |-> method, path |-> path, query |-> query, headers |-> headers, body |-> body]

Opts(proxy_url, fetch_root_key, debug, dns) ==
    [replica_url |-> "http://replica-0/", proxy_url |-> proxy_url,
     fetch_root_key |-> fetch_root_key, debug |-> debug, dns |-> dns]

HostOf(labels) == <<HeaderField("host", UriText(Some(labels), None))>>

NoBody == Bytes(<<>>)

Params ==
    {Param("canisterId", QueryPrincipal), Param("canisterId", "not-a-principal"),
     Param("canisterid", StaticCanister)}

Queries == {None} \cup {Some(q) : q \in SeqsUpTo(Params, MaxQueryParams)}

HostHeaders ==
    {<<>>, <<HeaderField("host", NotStr)>>, <<HeaderField("host", Garbage)>>,
     <<HeaderField("host", UriText(None, None))>>}
        \cup {HostOf(labels) : labels \in
                {<<StaticCanister, "localhost">>, <<"www", "localhost">>,
                 <<StaticCanister, "www", "localhost">>, <<StaticCanister, "ic0", "app">>,
                 <<"www", "ic0", "app">>, <<"app", "example">>}}

RefererHeaders ==
    {<<>>, <<HeaderField("referer", NotStr)>>, <<HeaderField("referer", Garbage)>>}
        \cup {<<HeaderField("referer", UriText(Some(<<"www", "example">>), q))>> :
                q \in {None, Some(<<Param("canisterId", RefererPrincipal)>>),
                       Some(<<Param("canisterId", "not-a-principal")>>),
                       Some(<<Param("x", "1"), Param("canisterId", RefererPrincipal)>>)}}

ClassifyScenarios ==
    {[cfg |-> Opts(p, f, d, DnsDefault),
      req |-> Request("GET", path, None, HostOf(<<StaticCanister, "localhost">>), NoBody)] :
        p \in {None, Some("http://proxy/")}, f \in BOOLEAN, d \in BOOLEAN, path \in Paths}

ResolveScenarios ==
    {[cfg |-> Opts(None, FALSE, FALSE, dns),
      req |-> Request(m, PathA, q, h \o r, b)] :
        dns \in {DnsDefault, DnsAliased}, q \in Queries, h \in HostHeaders,
        r \in RefererHeaders, m \in {"POST"}, b \in {Bytes(<<"data">>)}}

UpgradeScenarios ==
    {[cfg |-> Opts(None, FALSE, FALSE, DnsDefault),
      req |-> Request(m, PathA, q, HostOf(<<StaticCanister, "localhost">>) \o h, b)] :
        m \in {"GET", "POST"}, b \in {NoBody, Bytes(<<"data">>)},
        q \in {None, Some(<<Param("x", "1")>>)},
        h \in {<<>>, <<HeaderField("x-bin", NotStr)>>}}

CertifiedScenarios ==
    {[cfg |-> Opts(None, FALSE, sc[1], DnsDefault),
      req |-> Request("GET", sc[2], None, HostOf(<<CertifiedCanister, "localhost">>),
                      NoBody)] :
        sc \in {<<FALSE, PathA>>, <<FALSE, PathMissing>>, <<FALSE, IndexHtml>>,
                <<TRUE, PathA>>}}

StreamingScenarios ==
    {[cfg |-> Opts(None, FALSE, FALSE, DnsDefault),
      req |-> Request("GET", PathA, None, HostOf(<<StreamingCanister, "localhost">>), NoBody)]}

\* The header lines a client may add to a request that is proxied.
ProxyLines ==
    {HeaderField(n, Plain("1")) :
        n \in {"Connection", "Keep-Alive", "Proxy-Authenticate", "Proxy-Authorization",
               "TE", "Trailers", "Transfer-Encoding", "UPGRADE", "upgrade", "X-Custom"}}
        \cup {HeaderField("x-custom", Plain("2")),
              HeaderField("X-Forwarded-For", Plain("198.51.100.1")),
              HeaderField("x-forwarded-for", Plain("198.51.100.2, 10.0.0.1")),
              HeaderField("x-forwarded-for", NotStr)}

ProxyScenarios ==
    {[cfg |-> Opts(t[1], FALSE, d, DnsDefault),
      req |-> Request("POST", t[2], Some(<<Param("x", "1")>>), HeaderMapOf(lines),
                      Bytes(<<"data">>))] :
        t \in {<<None, <<"/", "a", "p", "i", "/", "v", "2">> >>,
               <<Some("http://proxy/"), <<"/", "_", "/", "x">> >>,
               <<Some("not a url"), <<"/", "_", "/", "x">> >>},
        d \in BOOLEAN, lines \in SeqsUpTo(ProxyLines, MaxProxyHeaders)}

Scenarios ==
    ClassifyScenarios \cup ResolveScenarios \cup UpgradeScenarios
        \cup CertifiedScenarios \cup StreamingScenarios \cup ProxyScenarios

NoTask ==
    [pos |-> "none", count |-> 0, callback_token |-> 0, body |-> NoBody, token |-> None,
     exit |-> "none"]

Init ==
    /\ \E s \in Scenarios : cfg = s.cfg /\ req = s.req
    /\ pc = "accept"
    /\ handlers = <<>>
    /\ canister_id = Unset
    /\ entire_body = None
    /\ calls = <<>>
    /\ root_key_fetches = 0
    /\ http_response = None
    /\ response = None
    /\ task = NoTask
    /\ callback_calls = 0
    /\ sent = <<>>
    /\ receiver = "none"
    /\ root_key = "none"
    /\ outcome = None
    /\ callbacks = <<>>
    /\ proxied = None
    /\ consumed = 0
    /\ replicas = <<cfg.replica_url>>
    /\ counter = 1
    /\ connections = <<[count |-> 0, replica_url |-> cfg.replica_url]>>
    /\ served = <<[connection |-> 1, accepted |-> 1, replica_url |-> cfg.replica_url]>>
    /\ decode_input = None
    /\ decode_output = None
    /\ NoExtraction

----------------------------------------------------------------------------
(* Responses to the client. *)

Full(bytes) == [kind |-> "full", bytes |-> bytes]

Channel == [kind |-> "channel"]

Response(status, headers, body) == [status |-> status, headers |-> headers, body |-> body]

Text(fragments) == Full(Bytes(fragments))

BadRequestBody == <<"Could not find a canister id to forward to.">>

\* main.rs 696-700
not_found == Ok(Response(404, <<>>, Text(<<"Not found">>)))

\* main.rs 702-706
unable_to_fetch_root_key == Ok(Response(500, <<>>, Text(<<"Unable to fetch root key">>)))

\* The dispatcher writing the error into the body whatever `debug` is.
handle_request_result_Verbose(result, debug) ==
    IF result.kind = "Err"
    THEN Response(500, <<>>, Text(<<"Internal Error: ", result.err>>))
    ELSE result.ok

\* main.rs 757-771: the dispatcher turns the handler's Result into the answer.
handle_request_result(result, debug) ==
    IF result.kind = "Err"
    THEN Response(500, <<>>,
                  Text(IF debug THEN <<"Internal Error: ", result.err>>
                       ELSE <<"Internal Server Error">>))
    ELSE result.ok

\* handle_result without the arm for replica rejects: they propagate like any error.
handle_result_PropagatesReject(result) ==
    IF result.kind = "Ok" THEN [kind |-> "Ok", ok |-> result.ok]
    ELSE IF result.kind = "ReplicaError"
    THEN [kind |-> "Return", result |-> Err(result.reject_message)]
    ELSE [kind |-> "Return", result |-> Err(result.error)]

\* main.rs 329-345: Ok(http_response), or the Result forward_request returns at once.
handle_result(result) ==
    IF result.kind = "Ok" THEN [kind |-> "Ok", ok |-> result.ok]
    ELSE IF result.kind = "ReplicaError"
    THEN [kind |-> "Return",
          result |-> Ok(Response(500, <<>>,
                                 Text(<<"Replica Error (", ToString(result.reject_code),
                                        "): \"", result.reject_message, "\"">>)))]
    ELSE [kind |-> "Return", result |-> Err(result.error)]

\* Response::builder() reports a header it cannot hold when the body is set.
BuilderOk(headers) == \A i \in 1..Len(headers) : headers[i].name # "bad name"

StatusCodeOk(status_code) == status_code >= StatusCodeMin /\ status_code <= StatusCodeMax

\* forward_request_result running the verifier on streamed responses too.
forward_request_result_ValidatesStreams(hr, canister, path) ==
    IF ~StatusCodeOk(hr.status_code) THEN Err("InvalidStatusCode")
    ELSE LET body_valid ==
                 validate(extract_headers_data(hr.headers), canister, path, hr.body)
         IN  IF body_valid.kind = "Panic" THEN Panic
             ELSE IF body_valid.kind = "Err"
                  THEN Ok(Response(500, <<>>, Text(body_valid.reason)))
             ELSE IF BuilderOk(hr.headers)
                  THEN Ok(Response(hr.status_code, hr.headers,
                                   IF hr.streaming_strategy # None THEN Channel
                                   ELSE Full(hr.body)))
             ELSE Err("InvalidHeaderName")

\* forward_request_result with the builder's status left at its default, 200.
forward_request_result_DefaultStatus(hr, canister, path) ==
    IF ~StatusCodeOk(hr.status_code) THEN Err("InvalidStatusCode")
    ELSE IF hr.streaming_strategy # None
    THEN IF BuilderOk(hr.headers)
         THEN Ok(Response(200, hr.headers, Channel))
         ELSE Err("InvalidHeaderName")
    ELSE LET body_valid ==
                 validate(extract_headers_data(hr.headers), canister, path, hr.body)
         IN  IF body_valid.kind = "Panic" THEN Panic
             ELSE IF body_valid.kind = "Err"
                  THEN Ok(Response(500, <<>>, Text(body_valid.reason)))
             ELSE IF BuilderOk(hr.headers)
                  THEN Ok(Response(200, hr.headers, Full(hr.body)))
             ELSE Err("InvalidHeaderName")

\* forward_request_result answering a failed verification from the builder
\* that holds the canister's status and headers.
forward_request_result_ReusesBuilder(hr, canister, path) ==
    IF ~StatusCodeOk(hr.status_code) THEN Err("InvalidStatusCode")
    ELSE IF hr.streaming_strategy # None
    THEN IF BuilderOk(hr.headers)
         THEN Ok(Response(hr.status_code, hr.headers, Channel))
         ELSE Err("InvalidHeaderName")
    ELSE LET body_valid ==
                 validate(extract_headers_data(hr.headers), canister, path, hr.body)
         IN  IF body_valid.kind = "Panic" THEN Panic
             ELSE IF body_valid.kind = "Err"
                  THEN IF BuilderOk(hr.headers)
                       THEN Ok(Response(hr.status_code, hr.headers, Text(body_valid.reason)))
                       ELSE Err("InvalidHeaderName")
             ELSE IF BuilderOk(hr.headers)
                  THEN Ok(Response(hr.status_code, hr.headers, Full(hr.body)))
                  ELSE Err("InvalidHeaderName")

\* main.rs 370-449: what forward_request returns for the response the calls
\* settled on: Ok(response), Err(e), or Panic out of the body hasher.
forward_request_result(hr, canister, path) ==
    IF ~StatusCodeOk(hr.status_code) THEN Err("InvalidStatusCode")
    ELSE IF hr.streaming_strategy # None
    THEN IF BuilderOk(hr.headers)
         THEN Ok(Response(hr.status_code, hr.headers, Channel))
         ELSE Err("InvalidHeaderName")
    ELSE LET body_valid ==
                 validate(extract_headers_data(hr.headers), canister, path, hr.body)
         IN  IF body_valid.kind = "Panic" THEN Panic
             ELSE IF body_valid.kind = "Err"
                  THEN Ok(Response(500, <<>>, Text(body_valid.reason)))
             ELSE IF BuilderOk(hr.headers)
                  THEN Ok(Response(hr.status_code, hr.headers, Full(hr.body)))
             ELSE Err("InvalidHeaderName")

\* main.rs 381-394: the streaming task is spawned once the status is accepted.
Spawns(hr) == StatusCodeOk(hr.status_code) /\ hr.streaming_strategy # None

\* Classify without the exception for /_/raw.
Classify_RawProxied(path) ==
    IF StartsWith(path, ApiPrefix) THEN "api"
    ELSE IF StartsWith(path, UnderscorePrefix) THEN "proxy"
    ELSE "canister"

\* The path classes of handle_request, main.rs 719-743.
Classify(path) ==
    IF StartsWith(path, ApiPrefix) THEN "api"
    ELSE IF StartsWith(path, UnderscorePrefix) /\ ~StartsWith(path, RawPrefix) THEN "proxy"
    ELSE "canister"

\* The arguments of http_request and http_request_update, main.rs 283-299.
CallArgs(kind, body) ==
    [kind |-> kind, canister |-> canister_id.v, method |-> req.method,
     uri |-> [path |-> req.path, query |-> req.query],
     headers |-> SelectSeq(req.headers, LAMBDA h : h.value.kind = "Str"),
     body |-> body, result |-> Pending]

\* The call issued last has returned `result`.
Returned(result) == [calls EXCEPT ![Len(calls)].result = result]

----------------------------------------------------------------------------
(* The reverse proxy, main.rs 625-694.  A HeaderMap is the sequence of its  *)
(* (name, value) entries, the values of one name in the order they were     *)
(* appended; hyper holds every header name in lower case.                   *)

\* socket.remote_addr().ip() of the connection, as Display prints it.
ClientIp == "203.0.113.7"

\* is_hop_header without the test for upgrade.
is_hop_header_NoUpgrade(name) ==
    to_ascii_lowercase(name) \in
        {"connection", "keep-alive", "proxy-authenticate", "proxy-authorization", "te",
         "trailers", "transfer-encoding"}

\* main.rs 625-634
is_hop_header(name) ==
    \/ to_ascii_lowercase(name) = "connection"
    \/ to_ascii_lowercase(name) = "keep-alive"
    \/ to_ascii_lowercase(name) = "proxy-authenticate"
    \/ to_ascii_lowercase(name) = "proxy-authorization"
    \/ to_ascii_lowercase(name) = "te"
    \/ to_ascii_lowercase(name) = "trailers"
    \/ to_ascii_lowercase(name) = "transfer-encoding"
    \/ to_ascii_lowercase(name) = "upgrade"

\* HeaderMap::insert: the value replaces every value the name has.
HeaderMapInsert(map, name, value) ==
    IF \E i \in 1..Len(map) : map[i].name = name
    THEN LET first == CHOOSE i \in 1..Len(map) :
                          /\ map[i].name = name
                          /\ \A j \in 1..(i - 1) : map[j].name # name
             kept == [i \in 1..Len(map) |->
                         IF i = first THEN HeaderField(name, value) ELSE map[i]]
         IN  SelectSeq(kept, LAMBDA h : h.name # name \/ h.value = value)
    ELSE Append(map, HeaderField(name, value))

RECURSIVE RemoveHopHeaders(_, _)
RemoveHopHeaders(result, headers) ==
    IF headers = <<>> THEN result
    ELSE LET h == Head(headers)
         IN  RemoveHopHeaders(IF is_hop_header(h.name) THEN result
                              ELSE HeaderMapInsert(result, h.name, h.value),
                              Tail(headers))

\* main.rs 639-649
remove_hop_headers(headers) == RemoveHopHeaders(<<>>, headers)

\* Uri::from_str accepts the URL.
UriFromStrOk(url) == url # "not a url"

\* main.rs 651-657
forward_uri(forward_url, request) ==
    IF UriFromStrOk(forward_url)
    THEN Ok([base |-> forward_url, path |-> request.path, query |-> request.query])
    ELSE Err("InvalidUri")

\* The request handed to the upstream client.
ProxiedRequest(method, uri, headers, body) ==
    [method |-> method, uri |-> uri, headers |-> headers, body |-> body]

\* create_proxied_request putting the client's address in place of the old value.
create_proxied_request_Overwrites(client_ip, forward_url, request) ==
    LET headers == remove_hop_headers(request.headers)
        uri == forward_uri(forward_url, request)
    IN  IF uri.kind = "Err" THEN uri
        ELSE Ok(ProxiedRequest(request.method, uri.ok,
                               HeaderMapInsert(headers, "x-forwarded-for", Plain(client_ip)),
                               request.body))

\* main.rs 659-682
create_proxied_request(client_ip, forward_url, request) ==
    LET headers == remove_hop_headers(request.headers)
        uri == forward_uri(forward_url, request)
        entry == HeaderGet(headers, "x-forwarded-for")
    IN  IF uri.kind = "Err" THEN uri
        ELSE IF entry = None
        THEN Ok(ProxiedRequest(request.method, uri.ok,
                               HeaderMapInsert(headers, "x-forwarded-for", Plain(client_ip)),
                               request.body))
        ELSE IF entry.v.kind # "Str" THEN Err("ToStrError")
        ELSE Ok(ProxiedRequest(request.method, uri.ok,
                               HeaderMapInsert(headers, "x-forwarded-for",
                                               Plain(entry.v.text \o ", " \o client_ip)),
                               request.body))

----------------------------------------------------------------------------
(* The steps of handle_request and forward_request, one per stretch of code *)
(* between two awaits.                                                      *)

\* handle_request returns `result`: the connection answers.
Return(result) ==
    /\ pc' = "done"
    /\ outcome' = Some(result)
    /\ response' = Some(handle_request_result(result, cfg.debug))

\* ForwardRequest going on to read the body when no canister id was resolved.
ForwardRequest_GoesOn ==
    /\ canister_id' = resolve_canister_id(req, cfg.dns)
    /\ pc' = "read_body"
    /\ UNCHANGED <<response, outcome>>

\* forward_request up to its first await, main.rs 265-299.
ForwardRequest ==
    LET resolved == resolve_canister_id(req, cfg.dns)
    IN  /\ canister_id' = resolved
        /\ IF resolved = None
           THEN Return(Ok(Response(400, <<>>, Text(BadRequestBody))))
           ELSE pc' = "read_body" /\ UNCHANGED <<response, outcome>>

\* forward_api up to its await, main.rs 684-692.
ForwardApi(url) ==
    LET proxied_request == create_proxied_request(ClientIp, url, req)
    IN  /\ handlers' = Append(handlers, [handler |-> "forward_api", url |-> url])
        /\ IF proxied_request.kind = "Err"
           THEN Return(proxied_request) /\ UNCHANGED proxied
           ELSE /\ proxied' = Some(proxied_request.ok)
                /\ pc' = "forward_api"
                /\ UNCHANGED <<response, outcome>>

\* main.rs 743-755, up to the first await.
CanisterPipeline ==
    /\ handlers' = Append(handlers, [handler |-> "canister_pipeline",
                                      url |-> cfg.replica_url])
    /\ IF cfg.fetch_root_key
       THEN /\ root_key_fetches' = root_key_fetches + 1
            /\ root_key' = "fetching"
            /\ pc' = "fetch_root_key"
            /\ UNCHANGED <<response, outcome, canister_id>>
       ELSE ForwardRequest /\ UNCHANGED <<root_key_fetches, root_key>>

\* main.rs 719-755, up to the first await of the handler it picks.
HandleRequest ==
    /\ pc = "accept"
    /\ LET class == Classify(req.path)
       IN  IF class = "api"
           THEN /\ ForwardApi(cfg.replica_url)
                /\ UNCHANGED <<canister_id, root_key_fetches, root_key>>
           ELSE IF class = "proxy"
           THEN IF cfg.proxy_url # None
                THEN /\ ForwardApi(cfg.proxy_url.v)
                     /\ UNCHANGED <<canister_id, root_key_fetches, root_key>>
                ELSE /\ handlers' = Append(handlers, [handler |-> "not_found", url |-> ""])
                     /\ Return(not_found)
                     /\ UNCHANGED <<canister_id, root_key_fetches, root_key, proxied>>
           ELSE CanisterPipeline /\ UNCHANGED proxied
    /\ UNCHANGED <<cfg, req, entire_body, calls, http_response, task, callback_calls,
                   sent, receiver>>
    /\ UNCHANGED <<callbacks, consumed, connection_vars, decode_vars, extract_vars>>

\* forward_api's upstream request completes, main.rs 684-694.
ForwardApiReturn ==
    /\ pc = "forward_api"
    /\ \E result \in {Ok(Response(200, <<>>, Text(<<"upstream">>))), Err("ConnectError")} :
           Return(result)
    /\ UNCHANGED <<cfg, req, handlers, canister_id, entire_body, calls, root_key_fetches, root_key,
                   http_response, task, callback_calls, sent, receiver>>
    /\ UNCHANGED <<callbacks, proxied, consumed, connection_vars, decode_vars, extract_vars>>

\* AfterFetch going on to forward_request whatever the fetch returned.
AfterFetch_GoesOn(fetched) == ForwardRequest

\* main.rs 750-754: the branch on the result of fetch_root_key.
AfterFetch(fetched) ==
    IF fetched THEN ForwardRequest
    ELSE Return(unable_to_fetch_root_key) /\ UNCHANGED canister_id

\* agent.fetch_root_key() completes, main.rs 750-754.
FetchRootKeyReturn ==
    /\ pc = "fetch_root_key"
    /\ \E fetched \in BOOLEAN :
           /\ root_key' = IF fetched THEN "fetched" ELSE "failed"
           /\ AfterFetch(fetched)
    /\ UNCHANGED <<cfg, req, handlers, entire_body, calls, root_key_fetches,
                   http_response, task, callback_calls, sent, receiver>>
    /\ UNCHANGED <<callbacks, proxied, consumed, connection_vars, decode_vars, extract_vars>>

\* body::to_bytes completes, main.rs 299-327: the query call is issued.
ReadBodyReturn ==
    /\ pc = "read_body"
    /\ \/ /\ entire_body' = Some(req.body)
          /\ calls' = Append(calls, CallArgs("query", req.body))
          /\ pc' = "query"
          /\ UNCHANGED <<response, outcome>>
       \/ /\ Return(Err("BodyReadError"))
          /\ UNCHANGED <<entire_body, calls>>
    /\ UNCHANGED <<cfg, req, handlers, canister_id, root_key_fetches, root_key, http_response,
                   task, callback_calls, sent, receiver>>
    /\ UNCHANGED <<callbacks, proxied, consumed, connection_vars, decode_vars, extract_vars>>

\* main.rs 370-449 and 483 for http_response `hr`.
Deliver(hr) ==
    LET result == forward_request_result(hr, canister_id.v, req.path)
    IN  /\ http_response' = Some(hr)
        /\ IF result.kind = "Panic"
           THEN pc' = "panicked" /\ UNCHANGED <<response, outcome>>
           ELSE Return(result)
        /\ IF Spawns(hr)
           THEN /\ sent' = <<hr.body>>
                /\ task' = [NoTask EXCEPT !.pos = "spawned",
                                           !.callback_token = hr.streaming_strategy.v.token]
                /\ receiver' = IF result.kind = "Ok" THEN "open" ELSE "closed"
           ELSE UNCHANGED <<sent, task, receiver>>

\* Settle upgrading the update's response again.
Settle_UpgradesAgain(result, upgradable) ==
    LET handled == handle_result(result)
    IN  IF handled.kind = "Return"
        THEN /\ Return(handled.result)
             /\ calls' = Returned(result)
             /\ UNCHANGED <<http_response, task, sent, receiver>>
        ELSE IF handled.ok.upgrade = Some(TRUE) /\ Len(calls) < 3
        THEN /\ calls' = Append(Returned(result), CallArgs("update", entire_body.v))
             /\ pc' = "update"
             /\ UNCHANGED <<http_response, response, outcome, task, sent, receiver>>
        ELSE Deliver(handled.ok) /\ calls' = Returned(result)

\* After handle_result: return at once, or go on with the response.
Settle(result, upgradable) ==
    LET handled == handle_result(result)
    IN  IF handled.kind = "Return"
        THEN /\ Return(handled.result)
             /\ calls' = Returned(result)
             /\ UNCHANGED <<http_response, task, sent, receiver>>
        ELSE IF upgradable /\ handled.ok.upgrade = Some(TRUE)
        THEN /\ calls' = Append(Returned(result), CallArgs("update", entire_body.v))
             /\ pc' = "update"
             /\ UNCHANGED <<http_response, response, outcome, task, sent, receiver>>
        ELSE Deliver(handled.ok) /\ calls' = Returned(result)

\* The query call completes, main.rs 327-368.
QueryReturn ==
    /\ pc = "query"
    /\ \E result \in CanisterResults(canister_id.v) : Settle(result, TRUE)
    /\ UNCHANGED <<cfg, req, handlers, canister_id, entire_body, root_key_fetches, root_key,
                   callback_calls>>
    /\ UNCHANGED <<callbacks, proxied, consumed, connection_vars, decode_vars, extract_vars>>

\* The update call completes, main.rs 357-368.
UpdateReturn ==
    /\ pc = "update"
    /\ \E result \in UpdateResults(canister_id.v) : Settle(result, FALSE)
    /\ UNCHANGED <<cfg, req, handlers, canister_id, entire_body, root_key_fetches, root_key,
                   callback_calls>>
    /\ UNCHANGED <<callbacks, proxied, consumed, connection_vars, decode_vars, extract_vars>>

----------------------------------------------------------------------------
(* The streaming task, main.rs 394-428, and the client's end of the body.   *)

\* LoopHead without `count += 1`: the ceiling is never reached.
LoopHead_NeverCounts(count, callback_token) ==
    IF count > MAX_HTTP_REQUEST_STREAM_CALLBACK_CALL_COUNT
    THEN /\ task' = [NoTask EXCEPT !.pos = "aborted", !.count = count,
                                   !.callback_token = callback_token, !.exit = "cap"]
         /\ UNCHANGED callback_calls
    ELSE /\ task' = [NoTask EXCEPT !.pos = "callback", !.count = count,
                                   !.callback_token = callback_token]
         /\ callback_calls' = callback_calls + 1

\* main.rs 398-408: from the head of the loop to the callback call.
LoopHead(count, callback_token) ==
    IF count + 1 > MAX_HTTP_REQUEST_STREAM_CALLBACK_CALL_COUNT
    THEN /\ task' = [NoTask EXCEPT !.pos = "aborted", !.count = count + 1,
                                   !.callback_token = callback_token, !.exit = "cap"]
         /\ UNCHANGED callback_calls
    ELSE /\ task' = [NoTask EXCEPT !.pos = "callback", !.count = count + 1,
                                   !.callback_token = callback_token]
         /\ callback_calls' = callback_calls + 1

\* The spawned task is first polled.
TaskStart ==
    /\ task.pos = "spawned"
    /\ LoopHead(task.count, task.callback_token)
    /\ UNCHANGED <<cfg, req, pc, handlers, canister_id, entire_body, calls,
                   root_key_fetches, root_key, http_response, response, outcome, sent, receiver>>
    /\ UNCHANGED <<callbacks, proxied, consumed, connection_vars, decode_vars, extract_vars>>

\* CallbackReturn calling back again, with the same token, after an error.
CallbackReturn_Retries ==
    /\ task.pos = "callback"
    /\ \E result \in CallbackResults(task.callback_token) :
           /\ callbacks' = Append(callbacks, [token |-> task.callback_token,
                                              result |-> result])
           /\ IF result.kind = "Ok"
              THEN /\ task' = [task EXCEPT !.pos = "send", !.body = result.ok.body,
                                           !.token = result.ok.token]
                   /\ UNCHANGED callback_calls
              ELSE LoopHead(task.count, task.callback_token)
    /\ UNCHANGED <<cfg, req, pc, handlers, canister_id, entire_body, calls,
                   root_key_fetches, root_key, http_response, response, outcome, sent,
                   receiver>>
    /\ UNCHANGED <<proxied, consumed, connection_vars, decode_vars, extract_vars>>

\* http_request_stream_callback completes, main.rs 405-426.
CallbackReturn ==
    /\ task.pos = "callback"
    /\ \E result \in CallbackResults(task.callback_token) :
           /\ callbacks' = Append(callbacks, [token |-> task.callback_token,
                                              result |-> result])
           /\ IF result.kind = "Ok"
              THEN task' = [task EXCEPT !.pos = "send", !.body = result.ok.body,
                                        !.token = result.ok.token]
              ELSE task' = [task EXCEPT !.pos = "aborted", !.exit = "callback_error"]
    /\ UNCHANGED <<cfg, req, pc, handlers, canister_id, entire_body, calls,
                   root_key_fetches, root_key, http_response, response, outcome, callback_calls, sent,
                   receiver>>
    /\ UNCHANGED <<proxied, consumed, connection_vars, decode_vars, extract_vars>>

\* Body::channel(), main.rs 384: the items the channel holds that the
\* connection has not taken yet, at most.
ChannelCapacity == 1

\* Sender::poll_ready: there is room in the channel.
PollReady == Len(sent) - consumed < ChannelCapacity

\* SendReturn waiting for room in a channel whose receiver is gone.
SendReturn_WaitsForRoom ==
    /\ task.pos = "send"
    /\ PollReady
    /\ IF receiver # "open"
       THEN /\ task' = [task EXCEPT !.pos = "aborted", !.exit = "send_failed"]
            /\ UNCHANGED <<sent, callback_calls>>
       ELSE /\ sent' = Append(sent, task.body)
            /\ IF task.token # None
               THEN LoopHead(task.count, task.token.v)
               ELSE /\ task' = [task EXCEPT !.pos = "closed", !.exit = "no_token"]
                    /\ UNCHANGED callback_calls
    /\ UNCHANGED <<cfg, req, pc, handlers, canister_id, entire_body, calls,
                   root_key_fetches, root_key, http_response, response, outcome, receiver>>
    /\ UNCHANGED <<callbacks, proxied, consumed, connection_vars, decode_vars, extract_vars>>

\* SendReturn on a channel that always has room.
SendReturn_NeverWaits ==
    /\ task.pos = "send"
    /\ IF receiver # "open"
       THEN /\ task' = [task EXCEPT !.pos = "aborted", !.exit = "send_failed"]
            /\ UNCHANGED <<sent, callback_calls>>
       ELSE /\ sent' = Append(sent, task.body)
            /\ IF task.token # None
               THEN LoopHead(task.count, task.token.v)
               ELSE /\ task' = [task EXCEPT !.pos = "closed", !.exit = "no_token"]
                    /\ UNCHANGED callback_calls
    /\ UNCHANGED <<cfg, req, pc, handlers, canister_id, entire_body, calls,
                   root_key_fetches, root_key, http_response, response, outcome, receiver>>
    /\ UNCHANGED <<callbacks, proxied, consumed, connection_vars, decode_vars, extract_vars>>

\* SendReturn calling back with the token it called with before.
SendReturn_KeepsToken ==
    /\ task.pos = "send"
    /\ receiver = "open" => PollReady
    /\ IF receiver # "open"
       THEN /\ task' = [task EXCEPT !.pos = "aborted", !.exit = "send_failed"]
            /\ UNCHANGED <<sent, callback_calls>>
       ELSE /\ sent' = Append(sent, task.body)
            /\ IF task.token # None
               THEN LoopHead(task.count, task.callback_token)
               ELSE /\ task' = [task EXCEPT !.pos = "closed", !.exit = "no_token"]
                    /\ UNCHANGED callback_calls
    /\ UNCHANGED <<cfg, req, pc, handlers, canister_id, entire_body, calls,
                   root_key_fetches, root_key, http_response, response, outcome, receiver>>
    /\ UNCHANGED <<callbacks, proxied, consumed, connection_vars, decode_vars, extract_vars>>

\* sender.send_data completes, main.rs 411-419: it fails once the receiver is gone.
SendReturn ==
    /\ task.pos = "send"
    /\ receiver = "open" => PollReady
    /\ IF receiver # "open"
       THEN /\ task' = [task EXCEPT !.pos = "aborted", !.exit = "send_failed"]
            /\ UNCHANGED <<sent, callback_calls>>
       ELSE /\ sent' = Append(sent, task.body)
            /\ IF task.token # None
               THEN LoopHead(task.count, task.token.v)
               ELSE /\ task' = [task EXCEPT !.pos = "closed", !.exit = "no_token"]
                    /\ UNCHANGED callback_calls
    /\ UNCHANGED <<cfg, req, pc, handlers, canister_id, entire_body, calls,
                   root_key_fetches, root_key, http_response, response, outcome, receiver>>
    /\ UNCHANGED <<callbacks, proxied, consumed, connection_vars, decode_vars, extract_vars>>

\* The connection writes to the client: it takes the next item out of the
\* body channel.
ClientRead ==
    /\ receiver = "open"
    /\ consumed < Len(sent)
    /\ consumed' = consumed + 1
    /\ UNCHANGED <<cfg, req, pc, handlers, canister_id, entire_body, calls,
                   root_key_fetches, root_key, http_response, response, outcome, task,
                   callback_calls, sent, receiver>>
    /\ UNCHANGED <<callbacks, proxied, connection_vars, decode_vars, extract_vars>>

\* The client goes away: hyper drops the receiving half of the body channel.
ClientClose ==
    /\ receiver = "open"
    /\ receiver' = "closed"
    /\ UNCHANGED <<cfg, req, pc, handlers, canister_id, entire_body, calls,
                   root_key_fetches, root_key, http_response, response, outcome, task, callback_calls, sent>>
    /\ UNCHANGED <<callbacks, proxied, consumed, connection_vars, decode_vars, extract_vars>>

Next ==
    \/ HandleRequest
    \/ ForwardApiReturn
    \/ FetchRootKeyReturn
    \/ ReadBodyReturn
    \/ QueryReturn
    \/ UpdateReturn
    \/ TaskStart
    \/ CallbackReturn
    \/ SendReturn
    \/ ClientRead
    \/ ClientClose

Spec == Init /\ [][Next]_vars

\* The requests for the canister that streams.
StreamInit == Init /\ [cfg |-> cfg, req |-> req] \in StreamingScenarios

\* What handle_request and the streaming task do for these requests.
StreamNext ==
    \/ HandleRequest
    \/ ReadBodyReturn
    \/ QueryReturn
    \/ UpdateReturn
    \/ TaskStart
    \/ CallbackReturn
    \/ SendReturn
    \/ ClientRead
    \/ ClientClose

\* The next step of the spawned task, main.rs 394-428.
StreamingTask == TaskStart \/ CallbackReturn \/ SendReturn

\* The spawned task goes on whenever it can: it is scheduled, every callback
\* returns and every send completes, with room in the channel or with the
\* receiver gone.  The connection takes what is in the channel unless the
\* client has gone.
LiveSpec ==
    /\ StreamInit
    /\ [][StreamNext]_vars
    /\ WF_vars(StreamingTask)
    /\ WF_vars(ClientRead)

----------------------------------------------------------------------------
(* main, main.rs 774-839: the connections it accepts and the requests it   *)
(* hands to handle_request.  No request is followed into handle_request.    *)

\* The most replicas, accepted connections and requests.
MaxReplicas == 3

MaxConnections == 4

MaxRequests == 2

ReplicaUrls == {"http://replica-0/", "http://replica-1/"}

\* No request is in handle_request.
NoRequest ==
    /\ cfg = Opts(None, FALSE, FALSE, DnsDefault)
    /\ req = Request("GET", PathA, None, <<>>, NoBody)
    /\ pc = "idle"
    /\ handlers = <<>>
    /\ canister_id = Unset
    /\ entire_body = None
    /\ calls = <<>>
    /\ root_key_fetches = 0
    /\ http_response = None
    /\ response = None
    /\ task = NoTask
    /\ callback_calls = 0
    /\ sent = <<>>
    /\ receiver = "none"
    /\ root_key = "none"
    /\ outcome = None
    /\ callbacks = <<>>
    /\ proxied = None
    /\ consumed = 0

\* main.rs 774-788: opts.replica holds at least its default value.
MainInit ==
    /\ NoRequest
    /\ replicas \in UNION {[1..n -> ReplicaUrls] : n \in 1..MaxReplicas}
    /\ counter = 0
    /\ connections = <<>>
    /\ served = <<>>
    /\ decode_input = None
    /\ decode_output = None
    /\ NoExtraction

\* Accept taking the replica after the counter is advanced.
Accept_AfterIncrement ==
    /\ counter < MaxConnections
    /\ LET count == counter + 1
       IN  /\ counter' = counter + 1
           /\ connections' = Append(connections,
                  [count |-> counter,
                   replica_url |-> replicas[(count % Len(replicas)) + 1]])
    /\ UNCHANGED <<replicas, served, request_vars, decode_vars, extract_vars>>

\* The make_service_fn closure, main.rs 790-803: a connection is accepted.
Accept ==
    /\ counter < MaxConnections
    /\ LET count == counter
       IN  /\ counter' = counter + 1
           /\ connections' = Append(connections,
                  [count |-> count,
                   replica_url |-> replicas[(count % Len(replicas)) + 1]])
    /\ UNCHANGED <<replicas, served, request_vars, decode_vars, extract_vars>>

\* The service_fn closure, main.rs 806-819: a request arrives on a connection,
\* `accepted` connections having been accepted by then.
ServiceFn ==
    /\ Len(served) < MaxRequests
    /\ \E c \in 1..Len(connections) :
           served' = Append(served, [connection |-> c, accepted |-> Len(connections),
                                     replica_url |-> connections[c].replica_url])
    /\ UNCHANGED <<replicas, counter, connections, request_vars, decode_vars, extract_vars>>

MainNext == Accept \/ ServiceFn

MainSpec == MainInit /\ [][MainNext]_vars

----------------------------------------------------------------------------
(* The body hasher on its own: extract_headers_data and decode_body applied *)
(* to the headers and the body of a response.                               *)

\* Bodies of one byte repeated, around the limit of decode_body.
LongLengths ==
    {1, MAX_BYTES_SIZE_TO_DECOMPRESS - 1, MAX_BYTES_SIZE_TO_DECOMPRESS,
     MAX_BYTES_SIZE_TO_DECOMPRESS + 1, 2 * MAX_BYTES_SIZE_TO_DECOMPRESS}

DecodeBodies ==
    {[frame |-> f, payload |-> p] :
        f \in {"none", "gzip", "deflate"}, p \in {<<>>, <<"hello">>, <<"tampered">>}}
        \cup {Long(f, b, n) : f \in {"none", "gzip", "deflate"}, b \in {"a", "b"},
                              n \in LongLengths}

DecodeHeaders ==
    {<<>>, <<HeaderField("X-Custom", Plain("gzip"))>>}
        \cup {<<HeaderField(n, Plain(e))>> :
                n \in {"Content-Encoding", "content-encoding"},
                e \in {"gzip", "deflate", "GZIP", "Gzip", "Deflate", "br", "identity", ""}}

DecodeInit ==
    /\ NoRequest
    /\ replicas = <<cfg.replica_url>>
    /\ counter = 0
    /\ connections = <<>>
    /\ served = <<>>
    /\ \E h \in DecodeHeaders, b \in DecodeBodies :
           decode_input = Some([headers |-> h, body |-> b])
    /\ decode_output = None
    /\ NoExtraction

\* validate's call of decode_body, main.rs 494, on what extract_headers_data found.
DecodeBody ==
    /\ decode_output = None
    /\ LET encoding == extract_headers_data(decode_input.v.headers).encoding
       IN  decode_output' = Some([encoding |-> encoding,
                                  sha |-> decode_body(decode_input.v.body, encoding)])
    /\ UNCHANGED <<decode_input, request_vars, connection_vars, extract_vars>>

DecodeNext == DecodeBody

DecodeSpec == DecodeInit /\ [][DecodeNext]_vars

----------------------------------------------------------------------------
(* The header extractor on its own: the inner loop of extract_headers_data  *)
(* over the fields of IC-Certificate values, one field at a time.           *)

MaxFields == 3

\* What base64::decode gives for the payloads of the fields.
FieldBytes == {NotCbor, TreeBoth, GoodPair[1].decoded.ok}

ExtractFieldInputs ==
    {Field(n, Ok(b)) : n \in {"certificate", "tree"}, b \in FieldBytes}
        \cup {Field("certificate", B64Err), Field("tree", B64Err),
              Field("Certificate", Ok(NotCbor)), Shapeless}

ExtractInit ==
    /\ NoRequest
    /\ replicas = <<cfg.replica_url>>
    /\ counter = 0
    /\ connections = <<>>
    /\ served = <<>>
    /\ decode_input = None
    /\ decode_output = None
    /\ ic_certificate \in SeqsUpTo(ExtractFieldInputs, MaxFields)
    /\ split_pos = 0
    /\ extracted = [certificate |-> None, tree |-> None, encoding |-> None]

\* One turn of `for field in value.split(',')`, main.rs 205-248.
ExtractField ==
    /\ split_pos < Len(ic_certificate)
    /\ split_pos' = split_pos + 1
    /\ extracted' = ExtractFields(extracted, <<ic_certificate[split_pos + 1]>>)
    /\ UNCHANGED <<ic_certificate, request_vars, connection_vars, decode_vars>>

ExtractNext == ExtractField

ExtractSpec == ExtractInit /\ [][ExtractNext]_vars

----------------------------------------------------------------------------
(* The claims. *)

\* handle_request or the connection task has ended for this request.
Ended == pc \in {"done", "panicked"}

\* The response the calls settled on reached main.rs 370.
Settled == Ended /\ http_response # None

\* C1: no request causes more than 1000 streaming callbacks; a stream whose
\* callbacks all return a new token is ended by the ceiling, after exactly 1000
\* callbacks, by an abort, and by then the initial body and the chunk of every
\* one of the 1000 callbacks have been handed to the client's body, in order.
C1_StreamingBound ==
    /\ callback_calls <= 1000
    /\ task.pos \in {"callback", "send"} =>
           /\ callback_calls = task.count
           /\ Len(sent) = task.count
    /\ task.exit = "cap" =>
           /\ task.pos = "aborted"
           /\ callback_calls = 1000
           /\ Len(sent) = 1001
           /\ sent[1] = http_response.v.body
           /\ \A i \in 1..1000 :
                  sent[i + 1] = Chunk(http_response.v.streaming_strategy.v.token + i - 1)

C1_Witness == task.exit = "cap" /\ callback_calls = 1000 /\ Len(sent) = 1001

\* The extractor's view of the settled response.
Data == extract_headers_data(http_response.v.headers)

Streamed == http_response.v.streaming_strategy # None

\* Exactly one of the certificate and the tree is present.
OneOfTwo == (Data.certificate # None) # (Data.tree # None)

\* The answer is a 500 made by the gateway, without the canister's body.
Refused ==
    /\ response # None
    /\ response.v.status = 500
    /\ response.v.body.kind = "full"
    /\ response.v.body.bytes # http_response.v.body

\* The answer of the dispatcher to an error `e` that no handler mapped.
InternalErrorResponse(e) ==
    Response(500, <<>>, Text(IF cfg.debug THEN <<"Internal Error: ", e>>
                             ELSE <<"Internal Server Error">>))

\* The body claims a gzip or deflate encoding that it does not decode under.
Undecodable ==
    \/ Data.encoding = Some("gzip") /\ http_response.v.body.frame # "gzip"
    \/ Data.encoding = Some("deflate") /\ http_response.v.body.frame # "deflate"

BothDecoded ==
    /\ Data.certificate # None /\ Data.certificate.v.kind = "Ok"
    /\ Data.tree # None /\ Data.tree.v.kind = "Ok"

Cert == Data.certificate.v.ok

Tree == Data.tree.v.ok

\* The digest of the body, where the body hasher returns one.
Digest == decode_body(http_response.v.body, Data.encoding).ok

\* The gateway answers with the canister's status, headers and body.
Passed ==
    response = Some(Response(http_response.v.status_code, http_response.v.headers,
                             Full(http_response.v.body)))

\* The certificate verifies, certifies data for the canister, and that data is
\* the root digest of the tree.
Anchored ==
    /\ Cert.cbor /\ Tree.cbor
    /\ Cert.verifies
    /\ \E c \in Cert.certified : c.canister = canister_id.v /\ c.data = TreeDigest(Tree)

\* The leaf found under http_assets, at the request path or else at
\* /index.html, is the digest of the body.
LeafMatches ==
    /\ ~Undecodable
    /\ \E a \in Tree.assets :
           /\ a.leaf = Digest
           /\ \/ a.path = req.path
              \/ a.path = IndexHtml /\ \A b \in Tree.assets : b.path # req.path

\* The answer is a 500 whose body is a failure reason of the gateway's.
FailureAnswer ==
    /\ response # None
    /\ response.v.status = 500
    /\ response.v.headers = <<>>
    /\ response.v.body \in {Text(BodyDoesNotPass),
                            Text(CertificateValidationFailed("InvalidCborData")),
                            InternalErrorResponse("InvalidStatusCode").body,
                            InternalErrorResponse("InvalidHeaderName").body}

\* C3 as stated: a non-streamed response whose certificate and tree both
\* decoded is written to the client only if the certificate verifies, the
\* certified data of the canister is found in it and equals the root digest
\* of the tree, and the leaf under http_assets equals the body digest; when
\* one of these fails the gateway answers 500 with the failure reason as body.
C3_Original ==
    Settled /\ ~Streamed /\ BothDecoded =>
        /\ Passed => Anchored /\ LeafMatches
        /\ ~(Anchored /\ LeafMatches) => FailureAnswer

\* C4: with a certificate that verifies and a tree whose root digest is the
\* certified data, a request path that is not in the tree passes verification
\* exactly when the body digest is the leaf at /index.html; a path that is in
\* the tree passes exactly when the body digest is the leaf at that path,
\* whatever the leaf at /index.html is.
C4_SpaFallback ==
    /\ Settled /\ ~Streamed /\ BothDecoded /\ Anchored /\ ~Undecodable
    /\ StatusCodeOk(http_response.v.status_code) /\ BuilderOk(http_response.v.headers)
    => /\ (\A a \in Tree.assets : a.path # req.path) =>
              (Passed <=> Asset(IndexHtml, Digest) \in Tree.assets)
       /\ (\E a \in Tree.assets : a.path = req.path) =>
              (Passed <=> Asset(req.path, Digest) \in Tree.assets)
       /\ ~Passed => response = Some(Response(500, <<>>, Text(BodyDoesNotPass)))

\* The request path is not in the tree and the body, certified at /index.html,
\* is delivered.
C4_Witness ==
    /\ Settled /\ ~Streamed /\ BothDecoded /\ Anchored
    /\ \A a \in Tree.assets : a.path # req.path
    /\ Passed

\* The request path is in the tree with another digest than the body's, the
\* body's digest is the leaf at /index.html, and the body is refused.
C4_WitnessFound ==
    /\ Settled /\ ~Streamed /\ BothDecoded /\ Anchored /\ ~Undecodable
    /\ \E a \in Tree.assets : a.path = req.path /\ a.leaf # Digest
    /\ Asset(IndexHtml, Digest) \in Tree.assets
    /\ response = Some(Response(500, <<>>, Text(BodyDoesNotPass)))

\* The response carries neither a certificate nor a tree.
Uncertified == Data.certificate = None /\ Data.tree = None

\* C5 as stated: every non-streamed response that carries neither a
\* certificate nor a tree is answered with the canister's status code and the
\* canister's body verbatim.
C5_Original ==
    Settled /\ ~Streamed /\ Uncertified =>
        /\ response # None
        /\ response.v.status = http_response.v.status_code
        /\ response.v.body = Full(http_response.v.body)

\* C5 as amended: a non-streamed response that carries neither a certificate
\* nor a tree, whose status code is a valid HTTP status code, whose headers the
\* response builder accepts and whose body decodes under the gzip or deflate
\* encoding it declares, if any, is answered with the canister's status code,
\* headers and body verbatim.
C5_UncertifiedPassthrough ==
    /\ Settled /\ ~Streamed /\ Uncertified
    /\ StatusCodeOk(http_response.v.status_code) /\ BuilderOk(http_response.v.headers)
    /\ ~Undecodable
    => pc = "done" /\ Passed

C5_Witness ==
    /\ Settled /\ ~Streamed /\ Uncertified /\ Passed
    /\ http_response.v.status_code = 404
    /\ http_response.v.headers # <<>>

\* Two calls carry the same arguments.
SameArguments(a, b) ==
    /\ a.canister = b.canister
    /\ a.method = b.method
    /\ a.uri = b.uri
    /\ a.headers = b.headers
    /\ a.body = b.body

\* The call returned a response with upgrade = true.
AsksUpgrade(call) == call.result.kind = "Ok" /\ call.result.ok.upgrade = Some(TRUE)

\* What the pipeline does with the response `hr`, main.rs 370-483.
FollowsFrom(hr) ==
    LET r == forward_request_result(hr, canister_id.v, req.path)
    IN  /\ http_response = Some(hr)
        /\ IF r.kind = "Panic" THEN pc = "panicked" /\ response = None
           ELSE pc = "done" /\ response = Some(handle_request_result(r, cfg.debug))
        /\ IF Spawns(hr) THEN task.pos # "none" /\ sent # <<>> /\ sent[1] = hr.body
           ELSE task = NoTask /\ sent = <<>>

\* C6: the first call is the query; an update is issued exactly when the query
\* returned a response with upgrade = true, after it and with the query's
\* method, URI, headers and body; no call follows the update, whatever its
\* response says; and status, headers, verification and streaming all come
\* from the update's response when there is one.
C6_UpgradeProtocol ==
    /\ Len(calls) <= 2
    /\ Len(calls) >= 1 =>
           /\ calls[1].kind = "query"
           /\ AsksUpgrade(calls[1]) <=> Len(calls) = 2
           /\ calls[1].result.kind = "Ok" /\ ~AsksUpgrade(calls[1]) =>
                  FollowsFrom(calls[1].result.ok)
    /\ Len(calls) = 2 =>
           /\ calls[2].kind = "update"
           /\ SameArguments(calls[1], calls[2])
           /\ calls[2].result.kind = "Pending" <=> pc = "update"
           /\ calls[2].result.kind = "Ok" => FollowsFrom(calls[2].result.ok)

\* The update's response asks for an upgrade again and is delivered as it is.
C6_Witness ==
    /\ Len(calls) = 2
    /\ AsksUpgrade(calls[2])
    /\ calls[1].method = "POST" /\ calls[1].body = Bytes(<<"data">>)
    /\ Len(calls[1].headers) < Len(req.headers)
    /\ Passed

\* The update's response, not the query's, is streamed.
C6_WitnessStreamed ==
    /\ Len(calls) = 2
    /\ calls[1].result.ok.streaming_strategy = None
    /\ task.pos = "closed"
    /\ Len(sent) = 3

\* C7: a replica reject of the query or of the update call is answered 500
\* with the body  Replica Error (<code>): "<message>"  and ends the pipeline:
\* no call follows, nothing is verified or streamed; any other error of a
\* call ends the pipeline too and reaches the dispatcher, which answers it as
\* an internal error.
C7_ReplicaReject ==
    \A i \in 1..Len(calls) :
        LET result == calls[i].result
        IN  result.kind \in {"ReplicaError", "OtherError"} =>
                /\ i = Len(calls)
                /\ pc = "done"
                /\ http_response = None /\ task = NoTask /\ sent = <<>>
                /\ callback_calls = 0
                /\ response =
                       IF result.kind = "ReplicaError"
                       THEN Some(Response(500, <<>>,
                                 Text(<<"Replica Error (", ToString(result.reject_code),
                                        "): \"", result.reject_message, "\"">>)))
                       ELSE Some(Response(500, <<>>,
                                 Text(IF cfg.debug
                                      THEN <<"Internal Error: ", result.error>>
                                      ELSE <<"Internal Server Error">>)))

\* The update call is rejected with code 3.
C7_Witness ==
    /\ Len(calls) = 2
    /\ calls[2].result = ReplicaError(3, "out of cycles")
    /\ response = Some(Response(500, <<>>,
                       Text(<<"Replica Error (", "3", "): \"", "out of cycles", "\"">>)))

\* The query call fails in the transport, with debug on.
C7_WitnessOther ==
    /\ Len(calls) = 1
    /\ calls[1].result = OtherError("TransportError")
    /\ response = Some(Response(500, <<>>, Text(<<"Internal Error: ", "TransportError">>)))

\* The three sources of a canister id, in the order of the claim.
Sources == <<FromHost(req, cfg.dns), FromUri(req), FromReferer(req)>>

\* C8: the canister id is the one of the first source, in the order Host
\* header, canisterId of the request URI, canisterId of the Referer, that
\* yields a valid id, and none only when none of the three does.
C8_ResolutionOrder ==
    canister_id # Unset =>
        \/ \E i \in 1..3 :
               /\ Sources[i] # None
               /\ \A j \in 1..(i - 1) : Sources[j] = None
               /\ canister_id = Sources[i]
        \/ /\ \A i \in 1..3 : Sources[i] = None
           /\ canister_id = None

\* A Host header and a canisterId in the URI that both fail to parse, and the
\* id taken from the Referer.
C8_Witness ==
    /\ canister_id = Some(RefererPrincipal)
    /\ HeaderGet(req.headers, "host") # None
    /\ req.query # None /\ FindCanisterIdParam(req.query.v) # None

\* All three sources yield an id, and the Host header's is taken.
C8_WitnessAll ==
    /\ canister_id = Some(StaticCanister)
    /\ Sources[2] = Some(QueryPrincipal)
    /\ Sources[3] = Some(RefererPrincipal)

\* C9: when no canister id is resolved the answer is 400 with the fixed body,
\* no query, update or streaming callback is issued and the request body is
\* not read.
C9_Unresolved ==
    canister_id = None =>
        /\ pc = "done"
        /\ response = Some(Response(400, <<>>,
                           Text(<<"Could not find a canister id to forward to.">>)))
        /\ calls = <<>>
        /\ callback_calls = 0
        /\ entire_body = None
        /\ http_response = None /\ task = NoTask /\ sent = <<>>

C9_Witness ==
    /\ canister_id = None
    /\ req.body # NoBody
    /\ response # None /\ response.v.status = 400

C11_RoundRobin ==
    LET R == Len(replicas)
        N == Len(connections)
    IN  /\ counter = N
        /\ \A k \in 1..N :
               /\ connections[k].count = k - 1
               /\ connections[k].replica_url = replicas[((k - 1) % R) + 1]
        /\ \A i \in 1..Len(served) :
               served[i].replica_url = replicas[((served[i].connection - 1) % R) + 1]
        /\ \A place \in 0..(R - 1) :
               Cardinality({k \in 1..N : connections[k].count % R = place})
                   \in {N \div R, (N + R - 1) \div R}

\* Two requests on the first of four connections to three replicas, the
\* second after the other three connections were accepted.
C11_Witness ==
    /\ replicas = <<"http://replica-0/", "http://replica-1/", "http://replica-0/">>
    /\ Len(connections) = 4
    /\ Len(served) = 2
    /\ served[1].connection = 1 /\ served[1].accepted = 1
    /\ served[2].connection = 1 /\ served[2].accepted = 4
    /\ connections[4].replica_url = "http://replica-0/"
    /\ connections[2].replica_url = "http://replica-1/"

\* The token the streaming strategy of the response carries.
StrategyToken == http_response.v.streaming_strategy.v.token

\* The callback that returned last.
LastCallback == callbacks[Len(callbacks)]

\* The callback returned a chunk and no token.
ReturnedLast(callback) ==
    callback.result.kind = "Ok" /\ callback.result.ok.token = None

\* C12: the body channel of a streamed response is handed the initial body
\* first and then the chunks of the callbacks in the order the callbacks
\* returned them; the first callback is called with the token of the strategy
\* and every later one with the token the one before it returned; and once
\* the chunk of a callback that returned no token is written, it is the last
\* one and the stream is closed, not aborted.
C12_StreamOrder ==
    task.pos # "none" =>
        /\ sent # <<>> /\ sent[1] = http_response.v.body
        /\ Len(callbacks) <= Len(sent) /\ Len(sent) <= Len(callbacks) + 1
        /\ \A i \in 1..Len(callbacks) :
               /\ i > 1 => /\ callbacks[i - 1].result.kind = "Ok"
                           /\ callbacks[i - 1].result.ok.token # None
                           /\ callbacks[i].token = callbacks[i - 1].result.ok.token.v
                           /\ sent[i] = callbacks[i - 1].result.ok.body
               /\ i = 1 => callbacks[i].token = StrategyToken
        /\ callbacks # <<>> /\ Len(sent) = Len(callbacks) + 1 =>
               /\ LastCallback.result.kind = "Ok"
               /\ sent[Len(sent)] = LastCallback.result.ok.body
               /\ ReturnedLast(LastCallback) => task.pos = "closed" /\ task.exit = "no_token"
        /\ task.pos = "callback" =>
               /\ callback_calls = Len(callbacks) + 1
               /\ Len(sent) = Len(callbacks) + 1
               /\ task.callback_token =
                      IF callbacks = <<>> THEN StrategyToken
                      ELSE LastCallback.result.ok.token.v
        /\ task.pos # "callback" => callback_calls = Len(callbacks)
        /\ task.pos = "closed" =>
               /\ callbacks # <<>> /\ ReturnedLast(LastCallback)
               /\ Len(sent) = Len(callbacks) + 1

\* part1, part2 and part3 written in this order, the callbacks called with the
\* tokens 0 and 1, and the stream closed.
C12_Witness ==
    /\ sent = <<Bytes(<<"part1">>), Bytes(<<"part", "2">>), Bytes(<<"part", "3">>)>>
    /\ Len(callbacks) = 2
    /\ callbacks[1].token = 0 /\ callbacks[1].result.ok.token = Some(1)
    /\ callbacks[2].token = 1 /\ callbacks[2].result.ok.token = None
    /\ task.pos = "closed"
    /\ receiver = "open"

\* What the body channel was handed before the callback that returned last:
\* the initial body and the chunks of the callbacks before it.
SentBeforeLast ==
    /\ Len(sent) = Len(callbacks)
    /\ sent[1] = http_response.v.body
    /\ \A i \in 1..(Len(callbacks) - 1) : sent[i + 1] = callbacks[i].result.ok.body

\* C13: once a streaming callback has returned an error, or the send of a
\* chunk has failed because the client is gone, the task has aborted the
\* stream, no callback is issued after the one that failed or whose chunk was
\* refused, and the body channel keeps what it was handed before.
C13_AbortStops ==
    /\ callbacks # <<>> /\ LastCallback.result.kind # "Ok" =>
           /\ task.pos = "aborted" /\ task.exit = "callback_error"
           /\ callback_calls = Len(callbacks)
           /\ SentBeforeLast
    /\ task.exit = "send_failed" =>
           /\ task.pos = "aborted"
           /\ receiver = "closed"
           /\ LastCallback.result.kind = "Ok"
           /\ callback_calls = Len(callbacks)
           /\ SentBeforeLast
    /\ task.pos = "send" => callback_calls = Len(callbacks) /\ SentBeforeLast
    /\ task.pos = "aborted" => task.exit \in {"cap", "callback_error", "send_failed"}

\* The second callback traps after part1 and part2 were written.
C13_Witness ==
    /\ Len(callbacks) = 2
    /\ callbacks[2].result = ReplicaError(5, "trapped")
    /\ sent = <<Bytes(<<"part1">>), Bytes(<<"part", "2">>)>>
    /\ task.pos = "aborted"
    /\ receiver = "open"

\* The client goes away while the second callback is running: its chunk is
\* refused and no third callback is issued although it returned a token.
C13_WitnessClientGone ==
    /\ Len(callbacks) = 2
    /\ callbacks[2].result.kind = "Ok" /\ callbacks[2].result.ok.token = Some(2)
    /\ task.exit = "send_failed"
    /\ callback_calls = 2
    /\ sent = <<Bytes(<<"part1">>), Bytes(<<"part", "2">>)>>

\* What the verifier would return for the settled response, were it run.
WouldValidate ==
    validate(Data, canister_id.v, req.path, http_response.v.body)

\* The chunks the body channel was handed are those the callbacks returned.
ChunksAsReceived ==
    /\ sent # <<>> /\ sent[1] = http_response.v.body
    /\ \A i \in 2..Len(sent) : sent[i] = callbacks[i - 1].result.ok.body

\* C14 as stated: every response with a streaming strategy is answered with
\* the canister's status and headers and a streamed body.
C14_Original ==
    Settled /\ Streamed =>
        response = Some(Response(http_response.v.status_code, http_response.v.headers,
                                 Channel))

\* C14 as amended: a response with a streaming strategy is never verified; when
\* its status code is a valid one and the response builder accepts its
\* headers, it is answered with the canister's status and headers and a body
\* that is handed the initial body and the chunks as the callbacks returned
\* them, whatever its certificate, tree and encoding headers are; otherwise
\* the answer is the dispatcher's 500.
C14_StreamedUnverified ==
    Settled /\ Streamed =>
        /\ pc = "done"
        /\ response =
               IF ~StatusCodeOk(http_response.v.status_code)
               THEN Some(InternalErrorResponse("InvalidStatusCode"))
               ELSE IF ~BuilderOk(http_response.v.headers)
               THEN Some(InternalErrorResponse("InvalidHeaderName"))
               ELSE Some(Response(http_response.v.status_code, http_response.v.headers,
                                  Channel))
        /\ StatusCodeOk(http_response.v.status_code) => ChunksAsReceived
        /\ ~StatusCodeOk(http_response.v.status_code) => task = NoTask /\ sent = <<>>

\* A streamed response that the verifier would refuse, delivered to its end.
C14_Witness ==
    /\ Settled /\ Streamed
    /\ WouldValidate.kind = "Err"
    /\ response = Some(Response(200, http_response.v.headers, Channel))
    /\ task.pos = "closed"
    /\ Len(sent) = 3

\* A streamed response on which the body hasher would panic, delivered.
C14_WitnessUndecodable ==
    /\ Settled /\ Streamed
    /\ WouldValidate.kind = "Panic"
    /\ response = Some(Response(200, http_response.v.headers, Channel))
    /\ task.pos = "closed"

\* C15 as stated: a non-streamed response that declares gzip or deflate and
\* whose body the decoder fails on is answered, and the answer is a 500.
C15_Original ==
    Settled /\ ~Streamed /\ Undecodable =>
        /\ pc = "done"
        /\ response # None
        /\ response.v.status = 500

\* The first `limit` bytes of the content of a body, its framing removed.
FirstBytes(body, limit) ==
    IF IsLong(body)
    THEN [frame |-> "none", fill |-> body.fill,
          len |-> IF body.len <= limit THEN body.len ELSE limit]
    ELSE [frame |-> "none", payload |-> body.payload]

\* C16: with encoding exactly gzip (deflate) the digest of a body that gunzips
\* (inflates) to n bytes is the digest, with no encoding, of the first
\* min(n, 10,000,000) bytes of the decompressed body; with no encoding, or any
\* other encoding string, one differing only in letter case included, the
\* digest is the digest of the raw body.
C16_EncodingAwareHash ==
    decode_output # None =>
        LET body == decode_input.v.body
            encoding == decode_output.v.encoding
            sha == decode_output.v.sha
        IN  /\ \A e \in {"gzip", "deflate"} :
                   encoding = Some(e) /\ body.frame = e =>
                       /\ sha = Ok(Sha256(FirstBytes(body, 10000000)))
                       /\ sha = decode_body(FirstBytes(body, 10000000), None)
            /\ encoding \notin {Some("gzip"), Some("deflate")} =>
                   sha = Ok(Sha256(body))
            /\ \A h \in 1..Len(decode_input.v.headers) :
                   LET field == decode_input.v.headers[h]
                   IN  field.name \in {"Content-Encoding", "content-encoding"} =>
                           encoding = Some(field.value.text)

\* A gzip body that decompresses to more than the limit is hashed up to the limit.
C16_Witness ==
    /\ decode_output # None
    /\ decode_output.v.encoding = Some("gzip")
    /\ IsLong(decode_input.v.body)
    /\ decode_input.v.body.frame = "gzip"
    /\ decode_input.v.body.len = 10000001
    /\ decode_output.v.sha = Ok(Sha256(Long("none", decode_input.v.body.fill, 10000000)))

\* A gzip body under the encoding "GZIP" is hashed as it is.
C16_WitnessLetterCase ==
    /\ decode_output # None
    /\ decode_output.v.encoding = Some("GZIP")
    /\ decode_input.v.body = Gzip(<<"hello">>)
    /\ decode_output.v.sha = Ok(Sha256(Gzip(<<"hello">>)))

HopByHopNames ==
    {"connection", "keep-alive", "proxy-authenticate", "proxy-authorization", "te",
     "trailers", "transfer-encoding", "upgrade"}

\* C17: on the reverse-proxy path the outbound request has no header whose
\* name, letter case aside, is connection, keep-alive, proxy-authenticate,
\* proxy-authorization, te, trailers, transfer-encoding or upgrade.
C17_NoHopHeaders ==
    proxied # None =>
        \A h \in 1..Len(proxied.v.headers) :
            to_ascii_lowercase(proxied.v.headers[h].name) \notin HopByHopNames

\* An inbound request with a hop-by-hop header and another header was proxied.
C17_Witness ==
    /\ proxied # None
    /\ \E h \in 1..Len(req.headers) : req.headers[h].name = "upgrade"
    /\ \E h \in 1..Len(req.headers) : req.headers[h].name = "x-custom"
    /\ \E h \in 1..Len(proxied.v.headers) : proxied.v.headers[h].name = "x-custom"

\* The values a header map holds for a name, in order.
GetAll(headers, name) ==
    SelectSeq(headers, LAMBDA h : to_ascii_lowercase(h.name) = name)

\* The field value of a header sent on several lines: the values, comma separated.
RECURSIVE FieldValue(_)
FieldValue(fields) ==
    IF Len(fields) = 1 THEN fields[1].value.text
    ELSE fields[1].value.text \o ", " \o FieldValue(Tail(fields))

\* C18 as stated: the outbound request has exactly one X-Forwarded-For value,
\* the client address when the inbound request has none, and the inbound
\* value followed by ", " and the client address when it has one.
C18_Original ==
    proxied # None =>
        LET old == GetAll(req.headers, "x-forwarded-for")
            new == GetAll(proxied.v.headers, "x-forwarded-for")
        IN  /\ Len(new) = 1
            /\ old = <<>> => new[1].value = Plain(ClientIp)
            /\ old # <<>> /\ (\A i \in 1..Len(old) : old[i].value.kind = "Str") =>
                   new[1].value = Plain(FieldValue(old) \o ", " \o ClientIp)

\* C19: a failure the handler returns is answered with a 500; with `debug`
\* off the answer is the fixed "Internal Server Error" whatever the failure
\* is, and with `debug` on the body holds the failure's detail.
C19_UnmappedFailures ==
    outcome # None /\ outcome.v.kind = "Err" =>
        /\ pc = "done"
        /\ response # None
        /\ response.v.status = 500
        /\ ~cfg.debug =>
               response.v = Response(500, <<>>, Text(<<"Internal Server Error">>))
        /\ cfg.debug =>
               response.v = Response(500, <<>>, Text(<<"Internal Error: ", outcome.v.err>>))

\* With `debug` off a failure of the upstream client was answered.
C19_Witness ==
    /\ outcome = Some(Err("ConnectError"))
    /\ ~cfg.debug
    /\ response = Some(Response(500, <<>>, Text(<<"Internal Server Error">>)))

\* With `debug` off another failure got the same answer.
C19_WitnessOtherFailure ==
    /\ outcome = Some(Err("InvalidUri"))
    /\ ~cfg.debug
    /\ response = Some(Response(500, <<>>, Text(<<"Internal Server Error">>)))

\* With `debug` on the detail is in the body.
C19_WitnessDebug ==
    /\ outcome = Some(Err("ConnectError"))
    /\ cfg.debug
    /\ response = Some(Response(500, <<>>, Text(<<"Internal Error: ", "ConnectError">>)))

\* C20: with fetch_root_key enabled no canister call is issued before the
\* root-key fetch has completed; a failed fetch is answered with 500 "Unable
\* to fetch root key" and no canister call is ever issued for the request;
\* a request on the /api/ or /_/ reverse-proxy path triggers no fetch.
C20_RootKeyFirst ==
    /\ cfg.fetch_root_key /\ (calls # <<>> \/ callback_calls > 0) =>
           root_key = "fetched" /\ root_key_fetches = 1
    /\ root_key = "fetching" =>
           calls = <<>> /\ callback_calls = 0 /\ response = None
    /\ root_key = "failed" =>
           /\ pc = "done"
           /\ response = Some(Response(500, <<>>, Text(<<"Unable to fetch root key">>)))
           /\ calls = <<>>
           /\ callback_calls = 0
    /\ Classify(req.path) \in {"api", "proxy"} =>
           root_key_fetches = 0 /\ root_key = "none"
    /\ ~cfg.fetch_root_key => root_key_fetches = 0

\* The fetch failed and the request was answered without a canister call.
C20_Witness ==
    /\ cfg.fetch_root_key
    /\ root_key = "failed"
    /\ response = Some(Response(500, <<>>, Text(<<"Unable to fetch root key">>)))
    /\ calls = <<>>

\* The fetch succeeded and the query was issued after it.
C20_WitnessFetched ==
    /\ cfg.fetch_root_key
    /\ root_key = "fetched"
    /\ calls # <<>>

\* A proxied request under an enabled fetch_root_key was answered.
C20_WitnessProxy ==
    /\ cfg.fetch_root_key
    /\ Classify(req.path) = "proxy"
    /\ proxied # None
    /\ pc = "done"
    /\ root_key_fetches = 0

\* The decoded payloads of the well-formed fields called `name` among the
\* first `n` fields.
Components(name, n) ==
    LET named == SelectSeq(SubSeq(ic_certificate, 1, n),
                           LAMBDA f : f.shape /\ f.name = name)
    IN  [i \in 1..Len(named) |-> named[i].decoded]

\* What the duplicate policy leaves of the components: nothing when there is
\* none, the first that decoded when one did, the decode error otherwise.
FirstDecoded(components) ==
    IF components = <<>> THEN None
    ELSE IF \E i \in 1..Len(components) : components[i].kind = "Ok"
    THEN Some(components[CHOOSE i \in 1..Len(components) :
                             /\ components[i].kind = "Ok"
                             /\ \A j \in 1..(i - 1) : components[j].kind # "Ok"])
    ELSE Some(B64Err)

C21_Fold ==
    /\ extracted.certificate = FirstDecoded(Components("certificate", split_pos))
    /\ extracted.tree = FirstDecoded(Components("tree", split_pos))
    /\ split_pos = Len(ic_certificate) =>
           extracted = extract_headers_data(
                           <<HeaderField("IC-Certificate", CertificateValue(ic_certificate))>>)

C21_Frame ==
    LET field == ic_certificate[split_pos + 1]
    IN  split_pos' = split_pos + 1 =>
            /\ ~(field.shape /\ field.name = "certificate") =>
                   extracted'.certificate = extracted.certificate
            /\ ~(field.shape /\ field.name = "tree") => extracted'.tree = extracted.tree
            /\ extracted.certificate # None /\ extracted.certificate.v.kind = "Ok" =>
                   extracted'.certificate = extracted.certificate
            /\ extracted.tree # None /\ extracted.tree.v.kind = "Ok" =>
                   extracted'.tree = extracted.tree

\* C21: after any sequence of certificate and tree components the certificate
\* field is the first value that decoded if one did, the decode error if
\* components were there and none decoded, and absent if there was none; the
\* same for the tree; a decoded value is never changed by a later component,
\* and a component of one name leaves the field of the other name alone.
C21_DuplicateFold == []C21_Fold /\ [][C21_Frame]_vars

\* An error, then two values that decode: the first of the two is kept, and
\* the tree field is still absent.
C21_Witness ==
    /\ split_pos = 3
    /\ ic_certificate = <<Field("certificate", B64Err), Field("certificate", Ok(TreeBoth)),
                          Field("certificate", Ok(NotCbor))>>
    /\ extracted.certificate = Some(Ok(TreeBoth))
    /\ extracted.tree = None

\* The chunks of callbacks that the connection has taken out of the channel:
\* the first item it takes is the initial body.
ChunksConsumed == IF consumed = 0 THEN 0 ELSE consumed - 1

\* The task waits in send_data for room in the channel.
SuspendedInSend == task.pos = "send" /\ receiver = "open" /\ ~PollReady

\* C22: a callback is issued only once the chunk of the one before has been
\* accepted by the body channel; the channel never holds more than its
\* capacity; while it is full the task stays in send; so the callbacks issued
\* exceed the chunks the connection has consumed by at most the capacity of
\* the channel plus one.
C22_BackPressure ==
    task.pos # "none" =>
        /\ callback_calls <= Len(sent)
        /\ task.pos = "callback" => callback_calls = Len(sent)
        /\ Len(sent) - consumed <= ChannelCapacity
        /\ SuspendedInSend => ~ENABLED SendReturn
        /\ callback_calls <= ChunksConsumed + ChannelCapacity + 1

\* The task is suspended in send with the bound attained.
C22_Witness ==
    /\ SuspendedInSend
    /\ consumed = 2
    /\ callback_calls = ChunksConsumed + ChannelCapacity + 1

\* C23 as stated: every header pair of the inbound request whose name is
\* neither hop-by-hop nor X-Forwarded-For is in the outbound request, every
\* value of a name that occurs more than once included, and the outbound
\* path and query are the inbound ones.
C23_Original ==
    proxied # None =>
        /\ \A i \in 1..Len(req.headers) :
               to_ascii_lowercase(req.headers[i].name)
                       \notin HopByHopNames \cup {"x-forwarded-for"} =>
                   \E o \in 1..Len(proxied.v.headers) :
                       /\ proxied.v.headers[o].name = req.headers[i].name
                       /\ proxied.v.headers[o].value = req.headers[i].value
        /\ proxied.v.uri.path = req.path
        /\ proxied.v.uri.query = req.query

\* The streaming task has ended.
Terminated == task.pos \in {"closed", "aborted"}

C24_Terminates == (task.pos # "none") ~> Terminated

C24_OneOfTwoWays ==
    /\ task.pos = "closed" <=> task.exit = "no_token"
    /\ task.pos = "aborted" <=> task.exit \in {"cap", "send_failed", "callback_error"}
    /\ ~Terminated <=> task.exit = "none"

C24_NothingAfter ==
    Terminated => UNCHANGED <<task, callback_calls, callbacks, sent>>

\* C24: when every callback returns and every send completes, the task of
\* every streamed response ends, either by a normal close or by an abort and
\* never both, and once it has ended there is no callback and no send.
C24_StreamingLiveness ==
    /\ C24_Terminates
    /\ []C24_OneOfTwoWays
    /\ [][C24_NothingAfter]_vars

\* A task ended by a normal close after a chunk of a callback was sent.
C24_Witness ==
    /\ task.pos = "closed"
    /\ callback_calls = 2
    /\ Len(sent) = 3

\* A task ended by an abort because the client had gone.
C24_WitnessAbort ==
    /\ task.pos = "aborted"
    /\ task.exit = "send_failed"
    /\ callback_calls = 2

\* The responses the canister has returned to the calls of this request.
CanisterSupplied ==
    {calls[i].result.ok : i \in {j \in 1..Len(calls) : calls[j].result.kind = "Ok"}}

\* The answer is `status` with no header and a message of the gateway, and
\* holds no header and no byte of the body of anything the canister returned.
FreshAnswer(status, message) ==
    /\ pc = "done"
    /\ response = Some(Response(status, <<>>, Text(message)))
    /\ \A hr \in CanisterSupplied :
           /\ \A h \in 1..Len(hr.headers) :
                  \A o \in 1..Len(response.v.headers) : response.v.headers[o] # hr.headers[h]
           /\ response.v.body.bytes # hr.body
           /\ ~IsLong(hr.body) =>
                  \A b \in 1..Len(hr.body.payload) :
                      \A f \in 1..Len(message) : message[f] # hr.body.payload[b]

\* C25: the 400 for an unresolved canister, the 500 for a replica reject and
\* the 500 for a failed verification are responses of the gateway alone: the
\* gateway's status, no header, the gateway's message, and none of the status
\* code, headers or body bytes that the canister returned.
C25_GatewayFailures ==
    /\ pc = "done" /\ canister_id = None =>
           calls = <<>> /\ FreshAnswer(400, BadRequestBody)
    /\ calls # <<>> /\ calls[Len(calls)].result.kind = "ReplicaError" =>
           LET result == calls[Len(calls)].result
           IN  FreshAnswer(500, <<"Replica Error (", ToString(result.reject_code),
                                  "): \"", result.reject_message, "\"">>)
    /\ (/\ Settled /\ ~Streamed /\ StatusCodeOk(http_response.v.status_code)
        /\ WouldValidate.kind = "Err") =>
           /\ WouldValidate.reason \in
                  {BodyDoesNotPass} \cup
                      {CertificateValidationFailed(e) : e \in {"InvalidCborData"}}
           /\ FreshAnswer(500, WouldValidate.reason)

\* A response with status 200 and headers of its own failed verification.
C25_Witness ==
    /\ Settled /\ ~Streamed
    /\ http_response.v.status_code = 200
    /\ http_response.v.headers # <<>>
    /\ http_response.v.body = Bytes(<<"hello">>)
    /\ WouldValidate.kind = "Err"
    /\ response = Some(Response(500, <<>>, Text(BodyDoesNotPass)))

\* The update call was rejected after the query had returned a response.
C25_WitnessReject ==
    /\ Len(calls) = 2
    /\ calls[1].result.kind = "Ok"
    /\ calls[2].result.kind = "ReplicaError"
    /\ response # None /\ response.v.status = 500 /\ response.v.headers = <<>>

====
